---- MODULE Spec2Model ----
(***************************************************************************)
(* A model of the zynk LSM engine: the memtable set, the immutable flush   *)
(* protocol (tmp build, rename, directory fsync, manifest append, reader   *)
(* open), the manifest replay, restart, and the read path over memtables   *)
(* and SSTables.                                                           *)
(*                                                                         *)
(* Keys and values are byte sequences.  A file of the sst directory is     *)
(* named by a record [stem, ext]; the manifest is a sequence of lines,     *)
(* each line the sequence of its whitespace-separated tokens.  Appending   *)
(* one manifest line is taken to be atomic with respect to a crash.        *)
(***************************************************************************)
EXTENDS Integers, Sequences, FiniteSets, TLC

VARIABLES
    running,        \* an LsmEngine value exists (between open and drop/crash)
    active,         \* MemTableSet.active
    immutables,     \* MemTableSet.immutables
    sstables,       \* LsmEngine.sstables: Seq of [id, path, reader]
    next_table_id,  \* LsmEngine.next_table_id
    sst_dir,        \* the files of <data_dir>/sst: name -> file content
    manifest,       \* the lines of <data_dir>/MANIFEST-000001
    current,        \* the content of <data_dir>/CURRENT ("" when absent)
    active_tables_ids, \* what replay_manifest returned to new_with_manifest
    written,        \* history: the most recent write to each key on the running instance
    last,           \* history: the most recent write to each key over all instances,
                    \*          kept while no write was lost (cleared afterwards)
    ever,           \* history: the keys ever written in this directory
    renamed_ids,    \* history: the ids renamed to their final name, in flush order,
                    \*          kept while no flush has failed or crashed
    faults,         \* history: the number of flushes that failed or crashed
    failed,         \* history: the table ids whose flush returned an error from
                    \*          the build or the rename, [now: on this instance,
                    \*          ever: on any instance]
    lost,           \* history: an instance was dropped with unflushed writes
    gset,           \* the GSet replicas: replica name -> GSet
    gset_raw,       \* history: the last GSet call was from_bytes of a blob
                    \*          whose elements are not in strictly ascending order
    rga,            \* the Rga replicas: replica name -> Rga
    rga_dup,        \* history: the last Rga call was an insert of an id that
                    \*          was present with another prev or value
    actor_id,       \* LsmEngine.actor_id
    local_counter,  \* LsmEngine.local_counter
    actor_file,     \* the content of <data_dir>/actor_id (Option<u64>)
    fetched,        \* per thread inside next_element_id: the counter value its
                    \*          fetch_add returned (Option<u64>)
    issued,         \* history: the ElementIds next_element_id has produced,
                    \*          [prev: those of earlier instances (a set),
                    \*           cur: those of this instance in fetch order]
    dropped,        \* history: an rga insert with an id fresh from
                    \*          next_element_id found the id already stored
    added,          \* history: the elements handed to gset_add, per key
    sst_mem,        \* a MemTable filled by put and delete alone
    sst_file,       \* the table file built from sst_mem (Option), as it is
                    \*          on disk now
    tombstoned,     \* history: the (key, id) pairs rga_delete has returned Ok for
    shared,         \* the descriptor of the reader of sst_file and the threads
                    \*          inside SsTableReader::get on it:
                    \*          [pos: the file position, th: per thread its place in get]
    boot            \* the files CURRENT, CURRENT.tmp and MANIFEST-* of a data
                    \*          directory and the process inside read_current_or_init

engine_vars == <<running, active, immutables, sstables, next_table_id, sst_dir,
                 manifest, current, active_tables_ids, written, last, ever,
                 renamed_ids, faults, failed, lost>>

crdt_vars == <<gset, gset_raw, rga, rga_dup>>

sst_vars == <<sst_mem, sst_file>>

node_vars == <<actor_id, local_counter, actor_file, fetched, issued, dropped, added>>

aux_vars == <<tombstoned, shared, boot>>

glue_vars == <<node_vars, sst_vars, aux_vars>>

vars == <<engine_vars, crdt_vars, glue_vars>>

----------------------------------------------------------------------------
\* Bounds and inputs

\* the largest table id a flush may allocate
MaxTableId == 2

\* the number of flushes that may fail with an I/O error or crash the process
MaxFaults == 1

\* the longest hand-written manifest that is replayed
MaxLog == 3

\* memtable_max_bytes and block_bytes handed to new_with_manifest
MemtableMaxBytes == 22
BlockBytes == 11

Keys == {<<1>>, <<1, 2>>}
Values == {<<7>>, <<8, 9>>}

\* the (key, value) pairs handed to put
PutArgs == {<<<<1>>, <<7>>>>, <<<<1>>, <<8, 9>>>>, <<<<1, 2>>, <<7>>>>}

----------------------------------------------------------------------------
\* Entry (table.rs) and Option<Vec<u8>>

NoEntry == [tag |-> "none", value |-> <<>>]
PutEntry(v) == [tag |-> "put", value |-> v]
DeleteEntry == [tag |-> "del", value |-> <<>>]

None == [some |-> FALSE, v |-> <<>>]
Some(v) == [some |-> TRUE, v |-> v]

\* lexicographic order of byte strings (the order of BTreeMap<Vec<u8>, _>)
RECURSIVE KeyLess(_, _)
KeyLess(a, b) ==
    IF a = <<>> THEN b # <<>>
    ELSE IF b = <<>> THEN FALSE
    ELSE IF Head(a) # Head(b) THEN Head(a) < Head(b)
    ELSE KeyLess(Tail(a), Tail(b))

KeyLeq(a, b) == a = b \/ KeyLess(a, b)

MinKey(S) == CHOOSE k \in S : \A o \in S : KeyLeq(k, o)

RECURSIVE SortedKeys(_)
SortedKeys(S) ==
    IF S = {} THEN <<>>
    ELSE LET m == MinKey(S) IN <<m>> \o SortedKeys(S \ {m})

----------------------------------------------------------------------------
\* MemTable (table.rs)

MemTableNew == [map |-> [k \in Keys |-> NoEntry], bytes_used |-> 0]

EntryCost(key, e) ==
    IF e.tag = "put" THEN 1 + 4 + 4 + Len(key) + Len(e.value)
    ELSE 1 + 4 + 4 + Len(key)

SaturatingSub(a, b) == IF a >= b THEN a - b ELSE 0

\* adjust_remove that leaves bytes_used as it is
AdjustRemoveNone(mt, key) == mt.bytes_used

\* bytes_used after adjust_remove(key)
AdjustRemove(mt, key) ==
    IF mt.map[key].tag = "none" THEN mt.bytes_used
    ELSE SaturatingSub(mt.bytes_used, EntryCost(key, mt.map[key]))

MemTablePut(mt, key, value) ==
    [map |-> [mt.map EXCEPT ![key] = PutEntry(value)],
     bytes_used |-> AdjustRemove(mt, key) + 1 + 4 + 4 + Len(key) + Len(value)]

MemTableDelete(mt, key) ==
    [map |-> [mt.map EXCEPT ![key] = DeleteEntry],
     bytes_used |-> AdjustRemove(mt, key) + 1 + 4 + 4 + Len(key)]

MemTableGet(mt, key) == mt.map[key]

MemTableKeys(mt) == {k \in DOMAIN mt.map : mt.map[k].tag # "none"}

MemTableIsEmpty(mt) == MemTableKeys(mt) = {}

OverThreshold(mt) == mt.bytes_used >= MemtableMaxBytes

\* MemTable::iter: the entries in ascending key order
MemTableIter(mt) ==
    LET ks == SortedKeys(MemTableKeys(mt))
    IN [i \in 1..Len(ks) |-> [key |-> ks[i], entry |-> mt.map[ks[i]]]]

----------------------------------------------------------------------------
\* MemTableSet (set.rs); a set is the record [active, immutables]

NoFrozen == [some |-> FALSE, mt |-> MemTableNew]
Frozen(mt) == [some |-> TRUE, mt |-> mt]

\* rotate without the push onto immutables (the frozen table is only returned)
RotateNoPush(mts) ==
    IF MemTableIsEmpty(mts.active) THEN [mts |-> mts, frozen |-> NoFrozen]
    ELSE [mts |-> [active |-> MemTableNew, immutables |-> mts.immutables],
          frozen |-> Frozen(mts.active)]

\* rotate that freezes the active memtable even when it is empty
RotateEmpty(mts) ==
    [mts |-> [active |-> MemTableNew,
              immutables |-> Append(mts.immutables, mts.active)],
     frozen |-> Frozen(mts.active)]

\* MemTableSet::rotate: the new set and the clone of the frozen memtable
Rotate(mts) ==
    IF MemTableIsEmpty(mts.active) THEN [mts |-> mts, frozen |-> NoFrozen]
    ELSE [mts |-> [active |-> MemTableNew,
                   immutables |-> Append(mts.immutables, mts.active)],
          frozen |-> Frozen(mts.active)]

\* MemTableSet::put and MemTableSet::delete
MemTableSetPut(mts, key, value) ==
    LET m == [mts EXCEPT !.active = MemTablePut(mts.active, key, value)]
    IN IF OverThreshold(m.active) THEN Rotate(m)
       ELSE [mts |-> m, frozen |-> NoFrozen]

MemTableSetDelete(mts, key) ==
    LET m == [mts EXCEPT !.active = MemTableDelete(mts.active, key)]
    IN IF OverThreshold(m.active) THEN Rotate(m)
       ELSE [mts |-> m, frozen |-> NoFrozen]

\* the newest immutable at or below position i that holds key, else NoEntry
RECURSIVE ImmutablesGet(_, _, _)
ImmutablesGet(imms, i, key) ==
    IF i = 0 THEN NoEntry
    ELSE IF MemTableGet(imms[i], key).tag # "none" THEN MemTableGet(imms[i], key)
    ELSE ImmutablesGet(imms, i - 1, key)

\* the oldest immutable at or above position i that holds key, else NoEntry
RECURSIVE ImmutablesGetOldest(_, _, _)
ImmutablesGetOldest(imms, i, key) ==
    IF i > Len(imms) THEN NoEntry
    ELSE IF MemTableGet(imms[i], key).tag # "none" THEN MemTableGet(imms[i], key)
    ELSE ImmutablesGetOldest(imms, i + 1, key)

\* get that walks the immutables oldest first
MemTableSetGetOldestFirst(mts, key) ==
    IF MemTableGet(mts.active, key).tag # "none" THEN MemTableGet(mts.active, key)
    ELSE ImmutablesGetOldest(mts.immutables, 1, key)

\* MemTableSet::get: active, then immutables newest (last pushed) first
MemTableSetGet(mts, key) ==
    IF MemTableGet(mts.active, key).tag # "none" THEN MemTableGet(mts.active, key)
    ELSE ImmutablesGet(mts.immutables, Len(mts.immutables), key)

----------------------------------------------------------------------------
\* DataBlock and Index (sstable/block.rs, sstable/index.rs)

\* a record of a block: op 0 = Put, 1 = Delete
PutRecord(key, value) == [op |-> 0, key |-> key, value |-> value]
DeleteRecord(key) == [op |-> 1, key |-> key, value |-> <<>>]

RecordLen(r) == 1 + 4 + 4 + Len(r.key) + Len(r.value)

RECURSIVE PayloadLen(_)
PayloadLen(records) ==
    IF records = <<>> THEN 0
    ELSE RecordLen(Head(records)) + PayloadLen(Tail(records))

DataBlockIsFull(records, block_size) == PayloadLen(records) >= block_size
DataBlockIsEmpty(records) == records = <<>>

\* encode(): the payload followed by the 4-byte CRC
DataBlockEncodedLen(records) == PayloadLen(records) + 4

\* Index::find_block: the handle of the first entry whose last_key >= key
RECURSIVE IndexFindFrom(_, _, _)
IndexFindFrom(index, i, key) ==
    IF i > Len(index) THEN [some |-> FALSE, handle |-> [offset |-> 0, length |-> 0]]
    ELSE IF KeyLeq(key, index[i].last_key)
         THEN [some |-> TRUE, handle |-> index[i].handle]
    ELSE IndexFindFrom(index, i + 1, key)

IndexFindBlock(index, key) == IndexFindFrom(index, 1, key)

----------------------------------------------------------------------------
\* SsTableBuilder (sstable/builder.rs).  The builder is the record
\* [blocks, file_len, block, block_size, index, last_key_in_block]; blocks
\* are the data blocks written to the file so far, each
\* [offset, length, records].

SsTableBuilderNew(block_size) ==
    [blocks |-> <<>>, file_len |-> 0, block |-> <<>>, block_size |-> block_size,
     index |-> <<>>, last_key_in_block |-> <<>>]

\* flush_block: write the encoded block at end of file, add (last_key, handle)
\* to the index, start a fresh block
FlushBlock(b) ==
    LET handle == [offset |-> b.file_len, length |-> DataBlockEncodedLen(b.block)]
    IN [b EXCEPT
          !.blocks = Append(@, [offset |-> handle.offset, length |-> handle.length,
                                records |-> b.block]),
          !.file_len = @ + handle.length,
          !.block = <<>>,
          !.index = Append(@, [last_key |-> b.last_key_in_block, handle |-> handle])]

\* add_put / add_delete that leave last_key_in_block as it is
BuilderAddStaleKey(b, rec) ==
    LET b1 == IF DataBlockIsFull(b.block, b.block_size) THEN FlushBlock(b) ELSE b
    IN [b1 EXCEPT !.block = Append(@, rec)]

\* add_put / add_delete, for the record rec
BuilderAdd(b, rec) ==
    LET b1 == IF DataBlockIsFull(b.block, b.block_size) THEN FlushBlock(b) ELSE b
    IN [b1 EXCEPT !.block = Append(@, rec), !.last_key_in_block = rec.key]

\* finish that does not flush the block it still holds
BuilderFinishNoFlush(b) ==
    [blocks |-> b.blocks, index |-> b.index, index_offset |-> b.file_len,
     footer_ok |-> TRUE]

\* finish: the file [blocks, index, index_offset, footer_ok]
BuilderFinish(b) ==
    LET b1 == IF ~DataBlockIsEmpty(b.block) \/ b.last_key_in_block # <<>>
              THEN FlushBlock(b) ELSE b
    IN [blocks |-> b1.blocks, index |-> b1.index, index_offset |-> b1.file_len,
        footer_ok |-> TRUE]

\* a tmp file that was created and truncated but never finished
PartialFile == [blocks |-> <<>>, index |-> <<>>, index_offset |-> 0, footer_ok |-> FALSE]

EntryRecord(e) ==
    IF e.entry.tag = "put" THEN PutRecord(e.key, e.entry.value) ELSE DeleteRecord(e.key)

RECURSIVE BuilderAddAll(_, _, _)
BuilderAddAll(b, entries, i) ==
    IF i > Len(entries) THEN b
    ELSE BuilderAddAll(BuilderAdd(b, EntryRecord(entries[i])), entries, i + 1)

\* flush_memtable_to_sstable (memtable/flush.rs): the file written at tmp_path
FlushMemtableToSstable(mem, block_bytes) ==
    BuilderFinish(BuilderAddAll(SsTableBuilderNew(block_bytes), MemTableIter(mem), 1))

----------------------------------------------------------------------------
\* SsTableReader (sstable/reader.rs)

NoReader == [ok |-> FALSE, index |-> <<>>, blocks |-> <<>>]

\* open: fails when the file is missing or its footer does not validate
SsTableReaderOpen(dir, path) ==
    IF path \notin DOMAIN dir THEN NoReader
    ELSE IF ~dir[path].footer_ok THEN NoReader
    ELSE [ok |-> TRUE, index |-> dir[path].index, blocks |-> dir[path].blocks]

\* the records read at a handle
ReadBlock(reader, handle) ==
    LET hit == {i \in 1..Len(reader.blocks) : reader.blocks[i].offset = handle.offset}
    IN IF hit = {} THEN <<>> ELSE reader.blocks[CHOOSE i \in hit : TRUE].records

\* the scan of a block: the last record whose key equals key
RECURSIVE ScanBlock(_, _, _, _)
ScanBlock(records, p, key, found) ==
    IF p > Len(records) THEN found
    ELSE ScanBlock(records, p + 1, key,
                   IF records[p].key = key THEN records[p] ELSE found)

NotFound == [op |-> 2, key |-> <<>>, value |-> <<>>]

\* SsTableReader::get: Some(v) for a Put, None for a Delete and for no record
SsTableReaderGet(reader, key) ==
    LET h == IndexFindBlock(reader.index, key)
    IN IF ~h.some THEN None
       ELSE LET found == ScanBlock(ReadBlock(reader, h.handle), 1, key, NotFound)
            IN IF found.op = 0 THEN Some(found.value) ELSE None

----------------------------------------------------------------------------
\* File names and manifest lines

RECURSIVE ToDecimal(_)
ToDecimal(n) == IF n < 10 THEN <<n>> ELSE ToDecimal(n \div 10) \o <<n % 10>>

RECURSIVE ParseDecimalFrom(_, _)
ParseDecimalFrom(digits, acc) ==
    IF digits = <<>> THEN acc
    ELSE ParseDecimalFrom(Tail(digits), 10 * acc + Head(digits))

\* str::parse::<u64> of a decimal token
ParseDecimal(digits) == ParseDecimalFrom(digits, 0)

RECURSIVE PadLeft(_, _)
PadLeft(digits, width) ==
    IF Len(digits) >= width THEN digits ELSE PadLeft(<<0>> \o digits, width)

\* format!("{id:06}.sst.tmp") and format!("{id:06}.sst") under <data_dir>/sst
SstTmpPath(id) == [stem |-> PadLeft(ToDecimal(id), 6), ext |-> "sst.tmp"]
SstFinalPath(id) == [stem |-> PadLeft(ToDecimal(id), 6), ext |-> "sst"]

\* writeln!(writer, "add {table_id}") and "remove {table_id}", as token lists
AddLine(id) == <<"add", ToDecimal(id)>>
RemoveLine(id) == <<"remove", ToDecimal(id)>>

\* record_add_table that writes the line of another id
RecordAddTableOffByOne(lines, id) == Append(lines, AddLine(id + 1))

\* Manifest::record_add_table: append the line and sync
RecordAddTable(lines, id) == Append(lines, AddLine(id))

RecordRemoveTable(lines, id) == Append(lines, RemoveLine(id))

Retain(seq, id) == LET Keep(x) == x # id IN SelectSeq(seq, Keep)

\* one line of the replay loop
ReplayLine(act, line) ==
    IF Len(line) = 2 /\ line[1] = "add" THEN Append(act, ParseDecimal(line[2]))
    ELSE IF Len(line) = 2 /\ line[1] = "remove" THEN Retain(act, ParseDecimal(line[2]))
    ELSE act

RECURSIVE ReplayFrom(_, _, _)
ReplayFrom(lines, i, act) ==
    IF i > Len(lines) THEN act
    ELSE ReplayFrom(lines, i + 1, ReplayLine(act, lines[i]))

\* a replay that skips remove lines
ReplayManifestNoRemove(lines) ==
    LET IsNotRemove(l) == ~(Len(l) = 2 /\ l[1] = "remove")
    IN ReplayFrom(SelectSeq(lines, IsNotRemove), 1, <<>>)

\* Manifest::replay_manifest
ReplayManifest(lines) == ReplayFrom(lines, 1, <<>>)

----------------------------------------------------------------------------
\* LsmEngine (engine/kv.rs)

\* the part of the engine and of the disk that flush_immutable works on
EngineState ==
    [next_table_id |-> next_table_id, sstables |-> sstables,
     sst_dir |-> sst_dir, manifest |-> manifest]

WriteFile(dir, path, file) ==
    [n \in DOMAIN dir \cup {path} |-> IF n = path THEN file ELSE dir[n]]

\* fs::rename: the file at from replaces whatever is at to
RenameFile(dir, from, to) ==
    IF from \notin DOMAIN dir THEN dir
    ELSE [n \in (DOMAIN dir \ {from}) \cup {to} |-> IF n = to THEN dir[from] ELSE dir[n]]

SstEntry(id, dir) ==
    [id |-> id, path |-> SstFinalPath(id), reader |-> SsTableReaderOpen(dir, SstFinalPath(id))]

\* flush_immutable with the manifest record written before the table is built
FlushImmutableManifestFirst(st, frozen, done) ==
    LET id == st.next_table_id
        lines == IF done >= 2 THEN RecordAddTable(st.manifest, id) ELSE st.manifest
        built == IF done >= 3
                 THEN WriteFile(st.sst_dir, SstTmpPath(id), FlushMemtableToSstable(frozen, BlockBytes))
                 ELSE st.sst_dir
        renamed == IF done >= 4 THEN RenameFile(built, SstTmpPath(id), SstFinalPath(id))
                   ELSE built
    IN [next_table_id |-> id + 1,
        sstables |-> IF done >= 6 THEN Append(st.sstables, SstEntry(id, renamed))
                     ELSE st.sstables,
        sst_dir |-> renamed,
        manifest |-> lines]

\* flush_immutable without the push onto the live table list
FlushImmutableNoPush(st, frozen, done) ==
    LET id == st.next_table_id
        built == WriteFile(st.sst_dir, SstTmpPath(id),
                           IF done >= 2 THEN FlushMemtableToSstable(frozen, BlockBytes) ELSE PartialFile)
        renamed == IF done >= 3 THEN RenameFile(built, SstTmpPath(id), SstFinalPath(id))
                   ELSE built
    IN [next_table_id |-> id + 1,
        sstables |-> st.sstables,
        sst_dir |-> renamed,
        manifest |-> IF done >= 5 THEN RecordAddTable(st.manifest, id) ELSE st.manifest]

\* flush_immutable, stopped (by an I/O error or a crash) after `done` of its
\* steps: 1 alloc_table_id, 2 build <id>.sst.tmp, 3 rename to <id>.sst,
\* 4 fsync_dir, 5 record_add_table, 6 open the reader and push it
FlushImmutable(st, frozen, done) ==
    LET id == st.next_table_id
        built == WriteFile(st.sst_dir, SstTmpPath(id),
                           IF done >= 2 THEN FlushMemtableToSstable(frozen, BlockBytes) ELSE PartialFile)
        renamed == IF done >= 3 THEN RenameFile(built, SstTmpPath(id), SstFinalPath(id))
                   ELSE built
    IN [next_table_id |-> id + 1,
        sstables |-> IF done >= 6 THEN Append(st.sstables, SstEntry(id, renamed))
                     ELSE st.sstables,
        sst_dir |-> renamed,
        manifest |-> IF done >= 5 THEN RecordAddTable(st.manifest, id) ELSE st.manifest]

\* the tables consulted from position i down to 1: the first Some wins
RECURSIVE SstablesGet(_, _, _)
SstablesGet(ssts, i, key) ==
    IF i = 0 THEN None
    ELSE IF SsTableReaderGet(ssts[i].reader, key).some
         THEN SsTableReaderGet(ssts[i].reader, key)
    ELSE SstablesGet(ssts, i - 1, key)

\* get in which a memtable tombstone falls through to the SSTables
LsmGetTombstoneFallsThrough(mts, ssts, key) ==
    IF MemTableSetGet(mts, key).tag = "put" THEN Some(MemTableSetGet(mts, key).value)
    ELSE SstablesGet(ssts, Len(ssts), key)

\* LsmEngine::get
LsmGet(mts, ssts, key) ==
    IF MemTableSetGet(mts, key).tag = "put" THEN Some(MemTableSetGet(mts, key).value)
    ELSE IF MemTableSetGet(mts, key).tag = "del" THEN None
    ELSE SstablesGet(ssts, Len(ssts), key)

\* the engine's answer to get(key) in the current state
Get(key) == LsmGet([active |-> active, immutables |-> immutables], sstables, key)

RECURSIVE SeqMax(_, _)
SeqMax(ids, i) ==
    IF i > Len(ids) THEN 0
    ELSE LET m == SeqMax(ids, i + 1) IN IF ids[i] > m THEN ids[i] ELSE m

\* the first id after the replayed ones, taken from their number
NextTableIdByCount(ids) == Len(ids) + 1

\* active_tables_ids.iter().copied().max().unwrap_or(0) + 1
NextTableIdAfter(ids) == SeqMax(ids, 1) + 1

\* a startup loop that stops at the first table that does not open
RECURSIVE LoadTablesStopAtError(_, _, _)
LoadTablesStopAtError(dir, ids, i) ==
    IF i > Len(ids) THEN <<>>
    ELSE IF SsTableReaderOpen(dir, SstFinalPath(ids[i])).ok
         THEN <<SstEntry(ids[i], dir)>> \o LoadTablesStopAtError(dir, ids, i + 1)
    ELSE <<>>

\* a startup loop that puts each table it opens in front of the list
RECURSIVE LoadTablesReversed(_, _, _)
LoadTablesReversed(dir, ids, i) ==
    IF i > Len(ids) THEN <<>>
    ELSE IF SsTableReaderOpen(dir, SstFinalPath(ids[i])).ok
         THEN LoadTablesReversed(dir, ids, i + 1) \o <<SstEntry(ids[i], dir)>>
    ELSE LoadTablesReversed(dir, ids, i + 1)

\* the startup loop: a reader for every id whose file opens
RECURSIVE LoadTables(_, _, _)
LoadTables(dir, ids, i) ==
    IF i > Len(ids) THEN <<>>
    ELSE IF SsTableReaderOpen(dir, SstFinalPath(ids[i])).ok
         THEN <<SstEntry(ids[i], dir)>> \o LoadTables(dir, ids, i + 1)
    ELSE LoadTables(dir, ids, i + 1)

\* a startup that loads no table
OpenTablesNone(dir, ids) == <<>>

OpenTables(dir, ids) == LoadTables(dir, ids, 1)

----------------------------------------------------------------------------
\* GSet (crdt.rs); a GSet is the record [elems], a Vec<Vec<u8>>

GSetNew == [elems |-> <<>>]

\* slice::binary_search on a sorted slice: Ok(index) or Err(index), 0-based
BinarySearch(elems, k) ==
    [found |-> \E i \in 1..Len(elems) : elems[i] = k,
     index |-> Cardinality({i \in 1..Len(elems) : KeyLess(elems[i], k)})]

\* Vec::insert(index, x), 0-based
VecInsert(v, index, x) == SubSeq(v, 1, index) \o <<x>> \o SubSeq(v, index + 1, Len(v))

GSetContains(g, k) == BinarySearch(g.elems, k).found

GSetInsert(g, k) ==
    LET r == BinarySearch(g.elems, k)
    IN IF r.found THEN g ELSE [elems |-> VecInsert(g.elems, r.index, k)]

GSetElements(g) == g.elems

\* a linear merge that pushes both sides of an equal pair
RECURSIVE MergeLoopKeepBoth(_, _, _, _, _)
MergeLoopKeepBoth(a, b, ia, ib, out) ==
    IF ia < Len(a) /\ ib < Len(b)
    THEN LET av == a[ia + 1]
             bv == b[ib + 1]
         IN IF KeyLess(av, bv) THEN MergeLoopKeepBoth(a, b, ia + 1, ib, Append(out, av))
            ELSE IF KeyLess(bv, av) THEN MergeLoopKeepBoth(a, b, ia, ib + 1, Append(out, bv))
            ELSE MergeLoopKeepBoth(a, b, ia + 1, ib + 1, out \o <<av, bv>>)
    ELSE out \o SubSeq(a, ia + 1, Len(a)) \o SubSeq(b, ib + 1, Len(b))

GSetMergeKeepBoth(g, other) ==
    [elems |-> MergeLoopKeepBoth(g.elems, other.elems, 0, 0, <<>>)]

\* the three loops of GSet::merge over a[ia..] and b[ib..]
RECURSIVE MergeLoop(_, _, _, _, _)
MergeLoop(a, b, ia, ib, out) ==
    IF ia < Len(a) /\ ib < Len(b)
    THEN LET av == a[ia + 1]
             bv == b[ib + 1]
         IN IF KeyLess(av, bv) THEN MergeLoop(a, b, ia + 1, ib, Append(out, av))
            ELSE IF KeyLess(bv, av) THEN MergeLoop(a, b, ia, ib + 1, Append(out, bv))
            ELSE MergeLoop(a, b, ia + 1, ib + 1, Append(out, av))
    ELSE out \o SubSeq(a, ia + 1, Len(a)) \o SubSeq(b, ib + 1, Len(b))

\* GSet::merge: self after self.merge(other)
GSetMerge(g, other) == [elems |-> MergeLoop(g.elems, other.elems, 0, 0, <<>>)]

\* u32::to_be_bytes and u32::from_be_bytes(bytes[i..i + 4]), i 0-based
U32ToBe(n) ==
    <<(n \div 16777216) % 256, (n \div 65536) % 256, (n \div 256) % 256, n % 256>>
U32FromBe(bytes, i) ==
    bytes[i + 1] * 16777216 + bytes[i + 2] * 65536 + bytes[i + 3] * 256 + bytes[i + 4]

\* (elen || elem)* of the elements
RECURSIVE EncodeElems(_)
EncodeElems(elems) ==
    IF elems = <<>> THEN <<>>
    ELSE U32ToBe(Len(Head(elems))) \o Head(elems) \o EncodeElems(Tail(elems))

\* to_bytes that writes a count one short of the number of elements
GSetToBytesShortCount(g) ==
    U32ToBe(IF Len(g.elems) = 0 THEN 0 ELSE Len(g.elems) - 1) \o EncodeElems(g.elems)

\* GSet::to_bytes
GSetToBytes(g) == U32ToBe(Len(g.elems)) \o EncodeElems(g.elems)

\* the loop of GSet::from_bytes with n iterations left, at offset i
RECURSIVE DecodeElems(_, _, _, _)
DecodeElems(bytes, i, n, elems) ==
    IF n = 0 \/ i + 4 > Len(bytes) THEN elems
    ELSE LET l == U32FromBe(bytes, i)
         IN IF i + 4 + l > Len(bytes) THEN elems
            ELSE DecodeElems(bytes, i + 4 + l, n - 1,
                             Append(elems, SubSeq(bytes, i + 5, i + 4 + l)))

\* Vec::sort (stable) and Vec::dedup (consecutive equal elements)
RECURSIVE VecSort(_)
VecSort(v) ==
    IF v = <<>> THEN <<>>
    ELSE LET s == VecSort(SubSeq(v, 1, Len(v) - 1))
             x == v[Len(v)]
         IN VecInsert(s, Cardinality({i \in 1..Len(s) : KeyLeq(s[i], x)}), x)

RECURSIVE VecDedup(_)
VecDedup(v) ==
    IF Len(v) <= 1 THEN v
    ELSE IF v[1] = v[2] THEN VecDedup(Tail(v))
    ELSE <<v[1]>> \o VecDedup(Tail(v))

\* from_bytes that keeps the elements as they were decoded
GSetFromBytesAsDecoded(bytes) ==
    IF Len(bytes) < 4 THEN GSetNew
    ELSE [elems |-> DecodeElems(bytes, 4, U32FromBe(bytes, 0), <<>>)]

\* GSet::from_bytes
GSetFromBytes(bytes) ==
    IF Len(bytes) < 4 THEN GSetNew
    ELSE [elems |-> VecDedup(VecSort(DecodeElems(bytes, 4, U32FromBe(bytes, 0), <<>>)))]

----------------------------------------------------------------------------
\* ElementId, Element and Rga (crdt.rs); an ElementId is <<actor, counter>>,
\* an Rga is the record [elems], a map from ElementId to Element

\* the derived Ord of ElementId: actor, then counter
IdLess(a, b) == a[1] < b[1] \/ (a[1] = b[1] /\ a[2] < b[2])

MinId(S) == CHOOSE a \in S : \A b \in S : a = b \/ IdLess(a, b)

\* the ids of S in ascending order (the iteration order of a BTreeMap)
RECURSIVE SortedIds(_)
SortedIds(S) ==
    IF S = {} THEN <<>>
    ELSE LET m == MinId(S) IN <<m>> \o SortedIds(S \ {m})

\* Option<ElementId>
NoneId == [some |-> FALSE, id |-> <<0, 0>>]
SomeId(id) == [some |-> TRUE, id |-> id]

Element(id, prev, value, deleted) ==
    [id |-> id, prev |-> prev, value |-> value, deleted |-> deleted]

RgaNew == [elems |-> <<>>]

RgaIds(r) == DOMAIN r.elems

\* BTreeMap::insert
MapInsert(m, k, v) == [x \in DOMAIN m \cup {k} |-> IF x = k THEN v ELSE m[x]]

\* insert that installs the element whether or not the id is present
RgaInsertOverwrite(r, id, prev, value) ==
    [elems |-> MapInsert(r.elems, id, Element(id, prev, value, FALSE))]

\* Rga::insert: entry(id).or_insert(..)
RgaInsert(r, id, prev, value) ==
    IF id \in RgaIds(r) THEN r
    ELSE [elems |-> MapInsert(r.elems, id, Element(id, prev, value, FALSE))]

\* Rga::delete
RgaDelete(r, id) ==
    IF id \in RgaIds(r) THEN [elems |-> [r.elems EXCEPT ![id].deleted = TRUE]]
    ELSE [elems |-> MapInsert(r.elems, id, Element(id, NoneId, <<>>, TRUE))]

\* a merge of one element that takes the deleted flag of the other side
MergeElementTakeFlag(local, other_elem) ==
    [local EXCEPT
        !.deleted = other_elem.deleted,
        !.value = IF local.value = <<>> /\ other_elem.value # <<>>
                  THEN other_elem.value ELSE local.value,
        !.prev = IF ~local.prev.some /\ other_elem.prev.some
                 THEN other_elem.prev ELSE local.prev]

\* a merge of one element that only ors the deleted flags
MergeElementFlagOnly(local, other_elem) ==
    [local EXCEPT !.deleted = local.deleted \/ other_elem.deleted]

\* the Some(local) arm of Rga::merge
MergeElement(local, other_elem) ==
    [local EXCEPT
        !.deleted = local.deleted \/ other_elem.deleted,
        !.value = IF local.value = <<>> /\ other_elem.value # <<>>
                  THEN other_elem.value ELSE local.value,
        !.prev = IF ~local.prev.some /\ other_elem.prev.some
                 THEN other_elem.prev ELSE local.prev]

\* the loop of Rga::merge over the ids of other still to visit
RECURSIVE MergeElems(_, _, _)
MergeElems(elems, other, ids) ==
    IF ids = <<>> THEN elems
    ELSE LET id == Head(ids)
             merged == IF id \in DOMAIN elems
                       THEN [elems EXCEPT ![id] = MergeElement(elems[id], other.elems[id])]
                       ELSE MapInsert(elems, id, other.elems[id])
         IN MergeElems(merged, other, Tail(ids))

\* Rga::merge: self after self.merge(other)
RgaMerge(r, other) == [elems |-> MergeElems(r.elems, other, SortedIds(RgaIds(other)))]

\* the children of curr in descending order
ChildrenDescending(r, curr) ==
    LET kids == SortedIds({id \in RgaIds(r) : r.elems[id].prev = curr})
    IN [i \in 1..Len(kids) |-> kids[Len(kids) + 1 - i]]

\* children[curr] of visible_sequence: the ids whose prev is curr, sorted
Children(r, curr) == SortedIds({id \in RgaIds(r) : r.elems[id].prev = curr})

\* visit of visible_sequence; VisitKids is its loop over kids. The elements
\* are collected, visible_sequence pushes their values
RECURSIVE Visit(_, _)
RECURSIVE VisitKids(_, _)
Visit(r, curr) == VisitKids(r, Children(r, curr))
VisitKids(r, kids) ==
    IF kids = <<>> THEN <<>>
    ELSE LET elem == r.elems[Head(kids)]
         IN (IF ~elem.deleted THEN <<elem>> ELSE <<>>)
                \o Visit(r, SomeId(Head(kids)))
                \o VisitKids(r, Tail(kids))

\* the elements whose values visible_sequence pushes, in order
VisibleElements(r) == Visit(r, NoneId)

\* Rga::visible_sequence
VisibleSequence(r) ==
    LET es == VisibleElements(r) IN [i \in 1..Len(es) |-> es[i].value]

\* u64::to_be_bytes and u64::from_be_bytes(bytes[i..i + 8]), i 0-based
U64ToBe(n) == <<0, 0, 0, 0>> \o U32ToBe(n)
U64FromBe(bytes, i) ==
    ((((((bytes[i + 1] * 256 + bytes[i + 2]) * 256 + bytes[i + 3]) * 256
        + bytes[i + 4]) * 256 + bytes[i + 5]) * 256 + bytes[i + 6]) * 256
        + bytes[i + 7]) * 256 + bytes[i + 8]

\* the slice &bs[i..], i 0-based
SliceFrom(bs, i) == SubSeq(bs, i + 1, Len(bs))

\* ElementId::to_bytes and ElementId::from_bytes: Option<(ElementId, usize)>
ElementIdToBytes(id) == U64ToBe(id[1]) \o U64ToBe(id[2])

ElementIdFromBytes(bs) ==
    IF Len(bs) < 16 THEN [some |-> FALSE, id |-> <<0, 0>>, n |-> 0]
    ELSE [some |-> TRUE, id |-> <<U64FromBe(bs, 0), U64FromBe(bs, 8)>>, n |-> 16]

\* Element::to_bytes
ElementToBytes(e) ==
    ElementIdToBytes(e.id)
        \o (IF e.prev.some THEN <<1>> \o ElementIdToBytes(e.prev.id) ELSE <<0>>)
        \o U32ToBe(Len(e.value)) \o e.value
        \o <<IF e.deleted THEN 1 ELSE 0>>

NoElement == [some |-> FALSE, elem |-> Element(<<0, 0>>, NoneId, <<>>, FALSE), n |-> 0]

\* Element::from_bytes: Option<(Element, usize)>
ElementFromBytes(bs) ==
    LET id == ElementIdFromBytes(bs)
    IN IF ~id.some \/ id.n >= Len(bs) THEN NoElement
       ELSE LET has_prev == bs[id.n + 1] = 1
                i1 == id.n + 1
                pid == ElementIdFromBytes(SliceFrom(bs, i1))
            IN IF has_prev /\ ~pid.some THEN NoElement
               ELSE LET prev == IF has_prev THEN SomeId(pid.id) ELSE NoneId
                        i2 == IF has_prev THEN i1 + pid.n ELSE i1
                    IN IF i2 + 4 > Len(bs) THEN NoElement
                       ELSE LET vlen == U32FromBe(bs, i2)
                                i3 == i2 + 4
                            IN IF i3 + vlen > Len(bs) \/ i3 + vlen >= Len(bs)
                               THEN NoElement
                               ELSE [some |-> TRUE,
                                     elem |-> Element(id.id, prev,
                                                      SubSeq(bs, i3 + 1, i3 + vlen),
                                                      bs[i3 + vlen + 1] # 0),
                                     n |-> i3 + vlen + 1]

\* the elements of the map in ascending id order, encoded
RECURSIVE EncodeElements(_, _)
EncodeElements(elems, ids) ==
    IF ids = <<>> THEN <<>>
    ELSE ElementToBytes(elems[Head(ids)]) \o EncodeElements(elems, Tail(ids))

\* Rga::to_bytes
RgaToBytes(r) ==
    U32ToBe(Cardinality(RgaIds(r))) \o EncodeElements(r.elems, SortedIds(RgaIds(r)))

\* the loop of Rga::from_bytes with n iterations left, at offset i
RECURSIVE DecodeElements(_, _, _, _)
DecodeElements(bs, i, n, elems) ==
    IF n = 0 \/ i >= Len(bs) THEN elems
    ELSE LET e == ElementFromBytes(SliceFrom(bs, i))
         IN IF e.some
            THEN DecodeElements(bs, i + e.n, n - 1, MapInsert(elems, e.elem.id, e.elem))
            ELSE elems

\* from_bytes that gives up on the whole blob at the first short read
RgaFromBytesAllOrNothing(bs) ==
    IF Len(bs) < 4 THEN RgaNew
    ELSE LET elems == DecodeElements(bs, 4, U32FromBe(bs, 0), <<>>)
         IN IF Cardinality(DOMAIN elems) = U32FromBe(bs, 0)
            THEN [elems |-> elems] ELSE RgaNew

\* Rga::from_bytes
RgaFromBytes(bs) ==
    IF Len(bs) < 4 THEN RgaNew
    ELSE [elems |-> DecodeElements(bs, 4, U32FromBe(bs, 0), <<>>)]

----------------------------------------------------------------------------
\* The state machine

InitialManifestName == "MANIFEST-000001"

EmptyDir == [n \in {} |-> PartialFile]

\* the replicas of the CRDT values, each created by new()
GSetReplicas == {"a", "b", "c"}
RgaReplicas == {"r1", "r2"}

\* no actor id was ever stored, no id issued and no element added; an engine
\* made by new_with_manifest has actor_id 0 and local_counter 0
NoActorFile == [some |-> FALSE, id |-> 0]

\* no table file was built
NoFile == [some |-> FALSE]

\* the keys and values of the memtable that is built into a table file
SstKeys == {<<1>>, <<1, 2>>, <<2>>}
SstValues == {<<>>, <<7>>, <<8, 9>>}
SstMemNew == [map |-> [k \in SstKeys |-> NoEntry], bytes_used |-> 0]

\* the threads that share one engine reference
Threads == {"t1", "t2"}
NoCounter == [some |-> FALSE, ctr |-> 0]
NoneIssued == [prev |-> {}, cur |-> <<>>]

\* a thread that is not inside SsTableReader::get
NotReading == [pc |-> "idle"]

\* no thread reads; the descriptor is where open left it
SharedIdle == [pos |-> 0, th |-> [t \in Threads |-> NotReading]]

\* the manifest names handed to read_current_or_init, as bytes
BootNames == {<<77, 49>>, <<77, 50>>}

\* Option<Vec<u8>>: the content of a file that may be absent
NoBytes == [some |-> FALSE, bytes |-> <<>>]
SomeBytes(bytes) == [some |-> TRUE, bytes |-> bytes]

\* Option<usize>: the number of lines of a manifest file that may be absent
NoLines == [some |-> FALSE, lines |-> 0]

\* an empty data directory and no process
BootIdle ==
    [pc |-> "idle", initial |-> <<>>, pending |-> <<>>, ret |-> NoBytes,
     files |-> [n \in {"CURRENT", "CURRENT.tmp"} |-> NoBytes],
     manifests |-> [n \in BootNames |-> NoLines],
     returned |-> {}]

GlueIdle ==
    /\ actor_id = 0
    /\ local_counter = 0
    /\ actor_file = NoActorFile
    /\ fetched = [t \in Threads |-> NoCounter]
    /\ issued = NoneIssued
    /\ dropped = FALSE
    /\ added = [k \in Keys |-> {}]
    /\ sst_mem = SstMemNew
    /\ sst_file = NoFile
    /\ tombstoned = {}
    /\ shared = SharedIdle
    /\ boot = BootIdle

CrdtIdle ==
    /\ gset = [x \in GSetReplicas |-> GSetNew]
    /\ gset_raw = FALSE
    /\ rga = [x \in RgaReplicas |-> RgaNew]
    /\ rga_dup = FALSE

NoWrites == [k \in Keys |-> NoEntry]

\* how a call that reaches flush_immutable ends: Ok, an I/O error after `done`
\* steps (the error is returned), or a crash of the process after `done` steps
OkOutcome == [kind |-> "ok", done |-> 6]

NoneFailed == [now |-> {}, ever |-> {}]
Outcomes ==
    {OkOutcome} \cup {[kind |-> k, done |-> d] : k \in {"err", "crash"}, d \in 1..5}

\* the engine built by new_with_manifest on a fresh directory
Init ==
    /\ running = TRUE
    /\ active = MemTableNew
    /\ immutables = <<>>
    /\ sstables = <<>>
    /\ next_table_id = 1
    /\ sst_dir = EmptyDir
    /\ manifest = <<>>
    /\ current = InitialManifestName
    /\ active_tables_ids = <<>>
    /\ written = NoWrites
    /\ last = NoWrites
    /\ ever = {}
    /\ renamed_ids = <<>>
    /\ faults = 0
    /\ failed = NoneFailed
    /\ lost = FALSE
    /\ CrdtIdle
    /\ GlueIdle

\* the in-memory state is gone (drop or crash)
EngineGone ==
    /\ running' = FALSE
    /\ active' = MemTableNew
    /\ immutables' = <<>>
    /\ sstables' = <<>>
    /\ next_table_id' = 0
    /\ active_tables_ids' = <<>>
    /\ written' = NoWrites

\* the rest of put/delete/flush once the memtable set has answered r:
\* `if let Some(frozen) = ... { self.flush_immutable(frozen)?; } Ok(())`;
\* w and l are the history of writes once the call has returned
FlushIfFrozen(r, out, w, l) ==
    IF ~r.frozen.some
    THEN /\ out = OkOutcome
         /\ active' = r.mts.active
         /\ immutables' = r.mts.immutables
         /\ written' = w
         /\ last' = IF faults = 0 /\ ~lost THEN l ELSE NoWrites
         /\ UNCHANGED <<running, sstables, next_table_id, sst_dir, manifest,
                        active_tables_ids, renamed_ids, faults, failed>>
    ELSE /\ next_table_id <= MaxTableId
         /\ out.kind # "ok" => faults < MaxFaults
         /\ LET st == FlushImmutable(EngineState, r.frozen.mt, out.done)
            IN /\ sst_dir' = st.sst_dir
               /\ manifest' = st.manifest
               /\ faults' = IF out.kind = "ok" THEN faults ELSE faults + 1
               /\ failed' = IF out.kind = "crash" THEN [failed EXCEPT !.now = {}]
                             ELSE IF out.kind = "err" /\ out.done <= 2
                             THEN [now |-> failed.now \cup {next_table_id},
                                   ever |-> failed.ever \cup {next_table_id}]
                             ELSE failed
               /\ last' = IF faults = 0 /\ ~lost /\ out.kind = "ok" THEN l ELSE NoWrites
               /\ renamed_ids' = IF faults = 0 /\ out.kind = "ok"
                             THEN Append(renamed_ids, next_table_id) ELSE <<>>
               /\ IF out.kind = "crash"
                  THEN EngineGone
                  ELSE /\ active' = r.mts.active
                       /\ immutables' = r.mts.immutables
                       /\ sstables' = st.sstables
                       /\ next_table_id' = st.next_table_id
                       /\ written' = w
                       /\ UNCHANGED <<running, active_tables_ids>>

Put(key, value, out) ==
    /\ running
    /\ FlushIfFrozen(MemTableSetPut([active |-> active, immutables |-> immutables],
                                    key, value),
                     out,
                     [written EXCEPT ![key] = PutEntry(value)],
                     [last EXCEPT ![key] = PutEntry(value)])
    /\ ever' = ever \cup {key}
    /\ UNCHANGED <<current, lost>>
    /\ UNCHANGED <<crdt_vars, glue_vars>>

Delete(key, out) ==
    /\ running
    /\ FlushIfFrozen(MemTableSetDelete([active |-> active, immutables |-> immutables],
                                       key),
                     out,
                     [written EXCEPT ![key] = DeleteEntry],
                     [last EXCEPT ![key] = DeleteEntry])
    /\ ever' = ever \cup {key}
    /\ UNCHANGED <<current, lost>>
    /\ UNCHANGED <<crdt_vars, glue_vars>>

Flush(out) ==
    /\ running
    /\ FlushIfFrozen(Rotate([active |-> active, immutables |-> immutables]),
                     out, written, last)
    /\ UNCHANGED <<current, lost, ever>>
    /\ UNCHANGED <<crdt_vars, glue_vars>>

\* the engine is dropped (or the process dies) between two calls
DropEngine ==
    /\ running
    /\ EngineGone
    /\ lost' = (lost \/ ~MemTableIsEmpty(active))
    /\ last' = IF MemTableIsEmpty(active) THEN last ELSE NoWrites
    /\ failed' = [failed EXCEPT !.now = {}]
    /\ UNCHANGED <<sst_dir, manifest, current, ever, renamed_ids, faults>>

Close ==
    /\ DropEngine
    /\ UNCHANGED <<crdt_vars, glue_vars>>

\* read_current_or_init: the name in CURRENT, written first when absent
ReadCurrentOrInit(cur, initial) == IF cur # "" THEN cur ELSE initial

\* new_with_manifest on the same directory
NewWithManifest ==
    /\ ~running
    /\ running' = TRUE
    /\ current' = ReadCurrentOrInit(current, InitialManifestName)
    /\ active' = MemTableNew
    /\ immutables' = <<>>
    /\ active_tables_ids' = ReplayManifest(manifest)
    /\ sstables' = OpenTables(sst_dir, ReplayManifest(manifest))
    /\ next_table_id' = NextTableIdAfter(ReplayManifest(manifest))
    /\ written' = NoWrites
    /\ UNCHANGED <<sst_dir, manifest, last, ever, renamed_ids, faults, failed, lost>>

Open ==
    /\ NewWithManifest
    /\ UNCHANGED <<crdt_vars, glue_vars>>

Next ==
    \/ \E kv \in PutArgs, out \in Outcomes : Put(kv[1], kv[2], out)
    \/ \E key \in Keys, out \in Outcomes : Delete(key, out)
    \/ \E out \in Outcomes : Flush(out)
    \/ Close
    \/ Open

Spec == Init /\ [][Next]_vars

----------------------------------------------------------------------------
\* Replay of arbitrary manifests: the manifest file is written by hand while
\* no engine runs, then new_with_manifest replays it.

LogIds == 1..2
LogLines ==
    {AddLine(id) : id \in LogIds} \cup {RemoveLine(id) : id \in LogIds}
        \cup {<<"add">>, <<"add", <<1>>, <<2>>>>}

InitReplay ==
    /\ running = FALSE
    /\ active = MemTableNew
    /\ immutables = <<>>
    /\ sstables = <<>>
    /\ next_table_id = 0
    /\ sst_dir = EmptyDir
    /\ manifest = <<>>
    /\ current = ""
    /\ active_tables_ids = <<>>
    /\ written = NoWrites
    /\ last = NoWrites
    /\ ever = {}
    /\ renamed_ids = <<>>
    /\ faults = 0
    /\ failed = NoneFailed
    /\ lost = FALSE
    /\ CrdtIdle
    /\ GlueIdle

WriteLine(line) ==
    /\ ~running
    /\ Len(manifest) < MaxLog
    /\ manifest' = Append(manifest, line)
    /\ UNCHANGED <<running, active, immutables, sstables, next_table_id, sst_dir,
                   current, active_tables_ids, written, last, ever, renamed_ids, faults,
                   failed, lost>>
    /\ UNCHANGED <<crdt_vars, glue_vars>>

NextReplay ==
    \/ \E line \in LogLines : WriteLine(line)
    \/ Open
    \/ Close

SpecReplay == InitReplay /\ [][NextReplay]_vars

----------------------------------------------------------------------------
\* Properties of the read path

\* a fresh instance: new_with_manifest has returned and nothing was written since
FreshInstance == running /\ written = NoWrites

\* the newest immutable memtable
NewestImmutable == immutables[Len(immutables)]

\* the records of a table file, read without the index
TableRecords(reader) ==
    UNION {{reader.blocks[i].records[j] : j \in 1..Len(reader.blocks[i].records)} :
              i \in 1..Len(reader.blocks)}

\* the entry a table file holds for key
TableEntry(reader, key) ==
    IF \E r \in TableRecords(reader) : r.key = key /\ r.op = 0
    THEN PutEntry((CHOOSE r \in TableRecords(reader) : r.key = key /\ r.op = 0).value)
    ELSE IF \E r \in TableRecords(reader) : r.key = key /\ r.op = 1 THEN DeleteEntry
    ELSE NoEntry

\* every layer a read may consult, oldest first: the live tables, the
\* immutable memtables, the active memtable
Layers ==
    [i \in 1..Len(sstables) |-> [k \in Keys |-> TableEntry(sstables[i].reader, k)]]
        \o [i \in 1..Len(immutables) |-> immutables[i].map]
        \o <<active.map>>

\* the record for key in the newest layer that holds one
NewestEntry(key) ==
    LET hit == {i \in 1..Len(Layers) : Layers[i][key].tag # "none"}
    IN IF hit = {} THEN NoEntry
       ELSE Layers[CHOOSE i \in hit : \A j \in hit : j <= i][key]

\* C1: on one engine instance, get(K) returns Some(V) for the value V of the
\* most recent put to K whenever the most recent write to K is a put, through
\* any sequence of put, delete and flush (threshold freezes included); a key
\* never written returns None.
C1_WriteVisibility ==
    running =>
        \A k \in Keys :
            /\ written[k].tag = "put" => Get(k) = Some(written[k].value)
            /\ k \notin ever => Get(k) = None

\* C1's case: the latest put to a key was frozen on the threshold and flushed,
\* and an older immutable memtable holds another record for the same key
C1_Witness ==
    /\ running
    /\ \E k \in Keys :
          /\ written[k].tag = "put"
          /\ active.map[k].tag = "none"
          /\ Len(immutables) = 2
          /\ OverThreshold(immutables[2])
          /\ immutables[1].map[k].tag # "none"
          /\ immutables[2].map[k] = written[k]
          /\ immutables[1].map[k] # immutables[2].map[k]

\* C2: if the most recent write to K is delete(K), get(K) returns None, also
\* after later flushes and when an older value of K is already in an SSTable.
C2_TombstoneShadows ==
    running => \A k \in Keys : written[k].tag = "del" => Get(k) = None

\* C2's case: the tombstone has been flushed and a live table holds a Put for the key
C2_Witness ==
    /\ running
    /\ \E k \in Keys :
          /\ written[k].tag = "del"
          /\ active.map[k].tag = "none"
          /\ \E i \in 1..Len(sstables) : SsTableReaderGet(sstables[i].reader, k).some
          /\ \E i \in 1..Len(sstables) : TableEntry(sstables[i].reader, k).tag = "del"

\* C3: a Delete record in the newest layer that holds any record for K is
\* definitive: get(K) returns None and never falls through to a Put for K in
\* an older SSTable, in particular after a restart.
C3_TombstoneDefinitive ==
    (running /\ faults = 0) =>
        \A k \in Keys : NewestEntry(k).tag = "del" => Get(k) = None

\* C4: for every key, get(K) right after flush() returns what get(K) returned
\* right before that flush.
C4_FlushPreservesGet ==
    [][(\E out \in Outcomes : Flush(out)) /\ running'
          => \A k \in Keys : Get(k)' = Get(k)]_vars

\* C4's case: flush() froze a memtable (below the threshold) that holds a
\* tombstone for a key whose older Put is in a live table
C4_Witness ==
    /\ running
    /\ Len(immutables) >= 1
    /\ ~OverThreshold(NewestImmutable)
    /\ \E k \in Keys :
          /\ NewestImmutable.map[k].tag = "del"
          /\ \E i \in 1..Len(sstables) : SsTableReaderGet(sstables[i].reader, k).some
          /\ \E i \in 1..Len(sstables) : TableEntry(sstables[i].reader, k).tag = "del"

\* C5: after put and flush calls that end with a successful flush, and a drop
\* and reopen on the same directory, get(K) returns the value of the latest
\* put to K; the first flush of a fresh directory produces 000001.sst and the
\* manifest line "add 1".
C5_RestartRecovery ==
    /\ (FreshInstance /\ faults = 0 /\ ~lost) =>
          \A k \in Keys :
              /\ last[k].tag = "put" => Get(k) = Some(last[k].value)
              /\ last[k].tag = "none" => Get(k) = None
    /\ (faults = 0 /\ manifest # <<>>) =>
          /\ manifest[1] = <<"add", <<1>>>>
          /\ [stem |-> <<0, 0, 0, 0, 0, 1>>, ext |-> "sst"] \in DOMAIN sst_dir

\* C5's case: a reopened engine reads a key whose latest put is in the second
\* table while the first table holds an older value of it
C5_Witness ==
    /\ FreshInstance /\ faults = 0 /\ ~lost
    /\ Len(sstables) = 2
    /\ \E k \in Keys :
          /\ last[k].tag = "put"
          /\ TableEntry(sstables[1].reader, k).tag = "put"
          /\ TableEntry(sstables[2].reader, k) = last[k]
          /\ TableEntry(sstables[1].reader, k) # last[k]

----------------------------------------------------------------------------
\* Properties of the flush protocol and of the manifest

\* the ids of the add lines of the manifest, in order
ManifestIds == ReplayManifest(manifest)

IdsOf(seq) == {seq[i] : i \in 1..Len(seq)}

LiveIds == [i \in 1..Len(sstables) |-> sstables[i].id]

\* the ids whose final .sst file is on disk
FinalIds == {ParseDecimal(n.stem) : n \in {m \in DOMAIN sst_dir : m.ext = "sst"}}

\* C6: the manifest record "add <id>" is appended only after <id>.sst was built
\* under the .tmp name and renamed; whatever step of flush_immutable a crash
\* hits, after reopen the active set holds exactly the recorded ids, each has
\* its final file on disk, and a table renamed but not recorded is never read.
C6_DurabilityOrdering ==
    /\ \A id \in IdsOf(ManifestIds) :
          /\ SstFinalPath(id) \in DOMAIN sst_dir
          /\ sst_dir[SstFinalPath(id)].footer_ok
          /\ SstTmpPath(id) \notin DOMAIN sst_dir
    /\ running => IdsOf(LiveIds) \subseteq IdsOf(ManifestIds)
    /\ FreshInstance => LiveIds = ManifestIds /\ active_tables_ids = ManifestIds

\* C6's case: an engine reopened after a crash that left a renamed table
\* without its manifest record, beside a recorded one
C6_Witness ==
    /\ FreshInstance
    /\ faults = 1
    /\ manifest # <<>>
    /\ \E id \in FinalIds : id \notin IdsOf(ManifestIds)

\* C7: after crash-free, successful flushes (over any number of clean
\* restarts) replay_manifest returns exactly the ids of the tables renamed to
\* their final name, each once, in flush order.
C7_ManifestInvariant ==
    faults = 0 =>
        /\ ReplayManifest(manifest) = renamed_ids
        /\ IdsOf(renamed_ids) = FinalIds

\* C7's case: two flushes, the second one after a clean restart
C7_Witness ==
    /\ faults = 0
    /\ running
    /\ Len(renamed_ids) = 2
    /\ Len(active_tables_ids) = 1

\* the ids left by a manifest: the id of an add line stays unless a later
\* remove line names it
RefActive(lines) ==
    LET IsAdd(i) == Len(lines[i]) = 2 /\ lines[i][1] = "add"
        Removed(i) == \E j \in (i + 1)..Len(lines) :
                          /\ Len(lines[j]) = 2 /\ lines[j][1] = "remove"
                          /\ ParseDecimal(lines[j][2]) = ParseDecimal(lines[i][2])
        keep == {i \in 1..Len(lines) : IsAdd(i) /\ ~Removed(i)}
        Nth(n) == CHOOSE i \in keep : Cardinality({j \in keep : j < i}) = n - 1
    IN [n \in 1..Cardinality(keep) |-> ParseDecimal(lines[Nth(n)][2])]

RemoveFirst(seq, id) ==
    IF \E i \in 1..Len(seq) : seq[i] = id
    THEN LET p == CHOOSE i \in 1..Len(seq) : seq[i] = id /\ \A j \in 1..(i - 1) : seq[j] # id
         IN SubSeq(seq, 1, p - 1) \o SubSeq(seq, p + 1, Len(seq))
    ELSE seq

\* the fold in which a remove line removes one occurrence, the first
RECURSIVE RefFirstFrom(_, _, _)
RefFirstFrom(lines, i, act) ==
    IF i > Len(lines) THEN act
    ELSE RefFirstFrom(lines, i + 1,
            IF Len(lines[i]) = 2 /\ lines[i][1] = "add"
            THEN Append(act, ParseDecimal(lines[i][2]))
            ELSE IF Len(lines[i]) = 2 /\ lines[i][1] = "remove"
            THEN RemoveFirst(act, ParseDecimal(lines[i][2]))
            ELSE act)

\* C8 as stated: the replay equals the fold in which "add <id>" appends id
\* and "remove <id>" removes the first occurrence of id, one occurrence only.
C8_ReplayRemovesFirst ==
    running => active_tables_ids = RefFirstFrom(manifest, 1, <<>>)

\* C8 as amended: the replay equals the fold in which "add <id>" appends id
\* and "remove <id>" removes every occurrence of id added so far; lines of
\* another shape are ignored.
C8_ReplayRemovesAll ==
    running => active_tables_ids = RefActive(manifest)

\* C8's case: "add 1; add 1; remove 1" was replayed
C8_Witness ==
    /\ running
    /\ manifest = <<AddLine(1), AddLine(1), RemoveLine(1)>>
    /\ active_tables_ids = <<>>

SetMax(S) == IF S = {} THEN 0 ELSE CHOOSE m \in S : \A o \in S : o <= m

\* C9: at startup next_table_id is max(active ids) + 1, or 1 for an empty
\* manifest; an id allocated by a flush is greater than every id allocated
\* before by this engine and every id replayed, so no two "add" records of
\* the manifest carry the same id.
C9_TableIdAllocation ==
    /\ [](FreshInstance => next_table_id = SetMax(IdsOf(active_tables_ids)) + 1)
    /\ [](running => \A id \in IdsOf(ManifestIds) \cup IdsOf(LiveIds)
                              \cup IdsOf(active_tables_ids) : id < next_table_id)
    /\ [](\A i, j \in 1..Len(manifest) : i # j => manifest[i] # manifest[j])
    /\ [][(running /\ running') =>
              next_table_id' \in {next_table_id, next_table_id + 1}]_vars
    /\ [][manifest' # manifest =>
              running /\ manifest' = Append(manifest, AddLine(next_table_id))]_vars

\* C9's case: a flush allocated an id on an engine that had replayed "add 1"
C9_Witness ==
    /\ running
    /\ active_tables_ids = <<1>>
    /\ manifest = <<AddLine(1), AddLine(2)>>
    /\ next_table_id = 3

\* the newest immutable memtable is in the newest live table, whose file has
\* its final name and whose id is recorded in the manifest
NewestFlushed ==
    /\ Len(sstables) >= 1
    /\ LET e == sstables[Len(sstables)]
       IN /\ e.path = SstFinalPath(e.id)
          /\ e.path \in DOMAIN sst_dir
          /\ SstTmpPath(e.id) \notin DOMAIN sst_dir
          /\ SsTableReaderOpen(sst_dir, e.path) = e.reader
          /\ AddLine(e.id) = manifest[Len(manifest)]
          /\ \A k \in Keys : TableEntry(e.reader, k) = NewestImmutable.map[k]

\* every immutable memtable has its table in the live list, in freeze order
AllImmutablesLive ==
    /\ Len(immutables) <= Len(sstables)
    /\ \A i \in 1..Len(immutables) : \A k \in Keys :
          TableEntry(sstables[Len(sstables) - Len(immutables) + i].reader, k)
              = immutables[i].map[k]

----------------------------------------------------------------------------
\* Properties of flush and rotate on an empty active memtable

\* C11: flush() and rotate() on an empty active memtable are no-ops: rotate
\* returns None and leaves the memtable set as it is, and a flush() step
\* leaves the immutable queue, the files of the sst directory, the manifest,
\* next_table_id and the live table list unchanged.
C11_EmptyFlushNoOp ==
    /\ []((running /\ MemTableIsEmpty(active)) =>
              LET mts == [active |-> active, immutables |-> immutables]
              IN Rotate(mts) = [mts |-> mts, frozen |-> NoFrozen])
    /\ [][(MemTableIsEmpty(active) /\ \E out \in Outcomes : Flush(out)) =>
              /\ running'
              /\ UNCHANGED <<active, immutables, sst_dir, manifest, next_table_id,
                             sstables, active_tables_ids>>]_vars

\* C11's case: flush() is called with an empty active memtable on an engine
\* that has flushed before (an immutable memtable, a live table and a
\* manifest record exist and id 2 is the next to allocate)
C11_Witness ==
    /\ running
    /\ MemTableIsEmpty(active)
    /\ Len(immutables) = 1
    /\ Len(sstables) = 1
    /\ manifest = <<AddLine(1)>>
    /\ next_table_id = 2
    /\ ENABLED Flush(OkOutcome)

----------------------------------------------------------------------------
\* GSet replicas: insert, merge, to_bytes and from_bytes, with no engine

\* the elements handed to insert
GSetElems == {<<1>>, <<1, 2>>, <<2>>}

\* the most elements a hand-made blob carries
MaxBlobElems == 2

\* hand-made blobs: a count field, then the elements of a list in any order
\* and with repetitions, cut off at any length
GSetLists == UNION {[1..n -> GSetElems] : n \in 0..MaxBlobElems}
RawBlob(cnt, list) == U32ToBe(cnt) \o EncodeElems(list)
GSetBlobs ==
    UNION {UNION {{SubSeq(RawBlob(cnt, l), 1, n) : n \in 0..Len(RawBlob(cnt, l))} :
                     cnt \in 0..(MaxBlobElems + 1)} : l \in GSetLists}

StrictlyAscending(v) == \A i \in 1..(Len(v) - 1) : KeyLess(v[i], v[i + 1])

\* the elements a blob carries, as from_bytes reads them before it sorts
BlobElems(bytes) ==
    IF Len(bytes) < 4 THEN <<>> ELSE DecodeElems(bytes, 4, U32FromBe(bytes, 0), <<>>)

InitGSet == InitReplay

\* x.insert(k)
GSetInsertAt(x, k) ==
    /\ gset' = [gset EXCEPT ![x] = GSetInsert(gset[x], k)]
    /\ gset_raw' = FALSE
    /\ UNCHANGED <<engine_vars, glue_vars, rga, rga_dup>>

\* x.merge(&y)
GSetMergeInto(x, y) ==
    /\ gset' = [gset EXCEPT ![x] = GSetMerge(gset[x], gset[y])]
    /\ gset_raw' = FALSE
    /\ UNCHANGED <<engine_vars, glue_vars, rga, rga_dup>>

\* x.merge(&GSet::from_bytes(&y.to_bytes())): y is sent to x as a blob
GSetReceive(x, y) ==
    /\ gset' = [gset EXCEPT ![x] = GSetMerge(gset[x], GSetFromBytes(GSetToBytes(gset[y])))]
    /\ gset_raw' = FALSE
    /\ UNCHANGED <<engine_vars, glue_vars, rga, rga_dup>>

\* x = GSet::from_bytes(blob)
GSetDecodeAt(x, blob) ==
    /\ gset' = [gset EXCEPT ![x] = GSetFromBytes(blob)]
    /\ gset_raw' = ~StrictlyAscending(BlobElems(blob))
    /\ UNCHANGED <<engine_vars, glue_vars, rga, rga_dup>>

NextGSet ==
    \/ \E x \in GSetReplicas, k \in GSetElems : GSetInsertAt(x, k)
    \/ \E x, y \in GSetReplicas : GSetMergeInto(x, y)
    \/ \E x, y \in GSetReplicas : GSetReceive(x, y)
    \/ \E x \in GSetReplicas, blob \in GSetBlobs : GSetDecodeAt(x, blob)

SpecGSet == InitGSet /\ [][NextGSet]_vars

\* the elements of a GSet as a set
ElemSet(g) == {g.elems[i] : i \in 1..Len(g.elems)}

\* C12: G-Set merge is idempotent, commutative and associative and computes
\* the union: for the replicas a, b, c, merge(a,a) = a, merge(a,b) =
\* merge(b,a), merge(merge(a,b),c) = merge(a,merge(b,c)), and the elements of
\* merge(a,b) are the elements of a together with those of b.
C12_GSetMergeSemilattice ==
    \A x, y, z \in GSetReplicas :
        LET a == gset[x]
            b == gset[y]
            c == gset[z]
        IN /\ GSetMerge(a, a) = a
           /\ GSetMerge(a, b) = GSetMerge(b, a)
           /\ GSetMerge(GSetMerge(a, b), c) = GSetMerge(a, GSetMerge(b, c))
           /\ ElemSet(GSetMerge(a, b)) = ElemSet(a) \cup ElemSet(b)
           /\ Len(GSetMerge(a, b).elems) = Cardinality(ElemSet(a) \cup ElemSet(b))

\* C12's case: three replicas that overlap pairwise without one holding
\* another: {1, 12}, {12, 2} (the test merge_union_basic) and {1, 2}
C12_Witness ==
    /\ gset["a"].elems = <<<<1>>, <<1, 2>>>>
    /\ gset["b"].elems = <<<<1, 2>>, <<2>>>>
    /\ gset["c"].elems = <<<<1>>, <<2>>>>

\* C13: after any sequence of insert, merge and from_bytes (of blobs that are
\* unsorted, hold duplicates or are cut short), elems of every G-Set is
\* strictly ascending in lexicographic byte order.
C13_GSetStrictlyAscending ==
    \A x \in GSetReplicas : StrictlyAscending(gset[x].elems)

\* C13's case: from_bytes has just decoded a blob whose elements were out of
\* order or repeated, and a replica holds more than one element
C13_Witness ==
    /\ gset_raw
    /\ \E x \in GSetReplicas : Len(gset[x].elems) >= 2

\* C14: from_bytes(to_bytes(g)) = g for every replica g, so that merging the
\* decoded blob of a remote replica is merging the replica itself and yields
\* the union; A = {alpha, beta} and B = {beta, gamma} give [alpha, beta, gamma].
C14_GSetCodecRoundTrip ==
    /\ \A x \in GSetReplicas : GSetFromBytes(GSetToBytes(gset[x])) = gset[x]
    /\ \A x, y \in GSetReplicas :
          LET m == GSetMerge(gset[x], GSetFromBytes(GSetToBytes(gset[y])))
          IN /\ m = GSetMerge(gset[x], gset[y])
             /\ ElemSet(m) = ElemSet(gset[x]) \cup ElemSet(gset[y])
    /\ LET A == GSetInsert(GSetInsert(GSetNew, <<1>>), <<1, 2>>)
           B == GSetInsert(GSetInsert(GSetNew, <<1, 2>>), <<2>>)
       IN GSetElements(GSetMerge(A, GSetFromBytes(GSetToBytes(B))))
              = <<<<1>>, <<1, 2>>, <<2>>>>

\* C14's case: replica a, which held {1, 12}, has merged the blob of replica
\* b = {12, 2}
C14_Witness ==
    /\ ~gset_raw
    /\ gset["a"].elems = <<<<1>>, <<1, 2>>, <<2>>>>
    /\ gset["b"].elems = <<<<1, 2>>, <<2>>>>
    /\ gset["c"].elems = <<>>

----------------------------------------------------------------------------
\* Rga replicas: insert, delete, merge, to_bytes and from_bytes, with no engine

\* the ids of the elements: (1,1), (1,2) and (2,1)
IdA == <<1, 1>>
IdB == <<1, 2>>
IdC == <<2, 1>>
RgaIdSet == {IdA, IdB, IdC}

\* the (id, prev, value) handed to insert: A at the head, B and C after A,
\* and a second body for the id of C (at the head, with the value of B)
RgaInserts ==
    {[id |-> IdA, prev |-> NoneId, value |-> <<65>>],
     [id |-> IdB, prev |-> SomeId(IdA), value |-> <<66>>],
     [id |-> IdC, prev |-> SomeId(IdA), value |-> <<67>>],
     [id |-> IdC, prev |-> NoneId, value |-> <<66>>]}

InitRga == InitReplay

\* x.insert(id, prev, value)
RgaInsertAt(x, ins) ==
    /\ rga' = [rga EXCEPT ![x] = RgaInsert(rga[x], ins.id, ins.prev, ins.value)]
    /\ rga_dup' = (/\ ins.id \in RgaIds(rga[x])
                   /\ \/ rga[x].elems[ins.id].prev # ins.prev
                      \/ rga[x].elems[ins.id].value # ins.value)
    /\ UNCHANGED <<engine_vars, glue_vars, gset, gset_raw>>

\* x.delete(id)
RgaDeleteAt(x, id) ==
    /\ rga' = [rga EXCEPT ![x] = RgaDelete(rga[x], id)]
    /\ rga_dup' = FALSE
    /\ UNCHANGED <<engine_vars, glue_vars, gset, gset_raw>>

\* x.merge(&y)
RgaMergeInto(x, y) ==
    /\ rga' = [rga EXCEPT ![x] = RgaMerge(rga[x], rga[y])]
    /\ rga_dup' = FALSE
    /\ UNCHANGED <<engine_vars, glue_vars, gset, gset_raw>>

\* x = Rga::from_bytes(&x.to_bytes()): x is stored and read back
RgaRoundTrip(x) ==
    /\ rga' = [rga EXCEPT ![x] = RgaFromBytes(RgaToBytes(rga[x]))]
    /\ rga_dup' = FALSE
    /\ UNCHANGED <<engine_vars, glue_vars, gset, gset_raw>>

NextRga ==
    \/ \E x \in RgaReplicas, ins \in RgaInserts : RgaInsertAt(x, ins)
    \/ \E x \in RgaReplicas, id \in RgaIdSet : RgaDeleteAt(x, id)
    \/ \E x, y \in RgaReplicas : RgaMergeInto(x, y)
    \/ \E x \in RgaReplicas : RgaRoundTrip(x)

SpecRga == InitRga /\ [][NextRga]_vars

\* states of a third replica
RgaSamples ==
    {RgaDelete(RgaNew, IdB),
     RgaInsert(RgaNew, IdC, NoneId, <<66>>),
     RgaInsert(RgaInsert(RgaNew, IdA, NoneId, <<65>>), IdC, SomeId(IdA), <<67>>)}

\* C15: RGA merge is idempotent, commutative and associative for all inputs:
\* merge(a,a) = a, merge(a,b) and merge(b,a) hold the same elements (id,
\* prev, value, deleted), and merge(merge(a,b),c) = merge(a,merge(b,c)).
C15_RgaMergeSemilattice ==
    \A x, y \in RgaReplicas :
        LET a == rga[x]
            b == rga[y]
        IN /\ RgaMerge(a, a) = a
           /\ RgaMerge(a, b) = RgaMerge(b, a)
           /\ \A c \in {a, b} \cup RgaSamples :
                 RgaMerge(RgaMerge(a, b), c) = RgaMerge(a, RgaMerge(b, c))

\* C16: insert(id, prev, value) with an id already present changes nothing;
\* with a new id it installs the element with deleted = false and leaves
\* every other element as it is.
C16_RgaInsertPresentNoOp ==
    \A x \in RgaReplicas, ins \in RgaInserts :
        LET r == rga[x]
            after == RgaInsert(r, ins.id, ins.prev, ins.value)
        IN IF ins.id \in RgaIds(r) THEN after = r
           ELSE /\ RgaIds(after) = RgaIds(r) \cup {ins.id}
                /\ after.elems[ins.id] = Element(ins.id, ins.prev, ins.value, FALSE)
                /\ \A id \in RgaIds(r) : after.elems[id] = r.elems[id]

\* C16's case: insert was called for the id of C while the replica held that
\* id with another prev or value, and the element is still one of the two
\* bodies as they were inserted
C16_Witness ==
    /\ rga_dup
    /\ \E x \in RgaReplicas :
          /\ IdC \in RgaIds(rga[x])
          /\ rga[x].elems[IdC] \in
                {Element(IdC, SomeId(IdA), <<67>>, FALSE), Element(IdC, NoneId, <<66>>, FALSE)}

\* C17: an element whose deleted flag is true keeps it through every insert,
\* delete, merge (into either replica) and to_bytes/from_bytes, and
\* visible_sequence pushes the value of no deleted element.
C17_RgaTombstoneMonotonic ==
    /\ [][\A x \in RgaReplicas : \A id \in RgaIds(rga[x]) :
              rga[x].elems[id].deleted =>
                  id \in RgaIds(rga'[x]) /\ rga'[x].elems[id].deleted]_vars
    /\ [](\A x \in RgaReplicas :
              \A i \in 1..Len(VisibleElements(rga[x])) :
                  ~VisibleElements(rga[x])[i].deleted)
    /\ [](\A x, y \in RgaReplicas : \A id \in RgaIds(rga[x]) :
              rga[x].elems[id].deleted =>
                  /\ RgaMerge(rga[x], rga[y]).elems[id].deleted
                  /\ RgaMerge(rga[y], rga[x]).elems[id].deleted
                  /\ RgaFromBytes(RgaToBytes(rga[x])).elems[id].deleted)

\* C17's case (rga_merge_delete_tombstone): r1 holds A and B with their
\* bodies, r2 only the tombstone of B, and B is deleted in r1 after the merge
C17_Witness ==
    /\ rga["r2"].elems = MapInsert(<<>>, IdB, Element(IdB, NoneId, <<>>, TRUE))
    /\ RgaIds(rga["r1"]) = {IdA, IdB}
    /\ rga["r1"].elems[IdB] = Element(IdB, SomeId(IdA), <<66>>, TRUE)
    /\ VisibleSequence(rga["r1"]) = <<<<65>>>>

\* C18: in every state reached by insert, delete and merge, the prev of
\* every element is None or the id of an element of the same replica.
C18_RgaAnchorsExist ==
    \A x \in RgaReplicas : \A id \in RgaIds(rga[x]) :
        rga[x].elems[id].prev.some => rga[x].elems[id].prev.id \in RgaIds(rga[x])

\* the ids of the elements whose values visible_sequence pushes
VisibleIds(r) == [i \in 1..Len(VisibleElements(r)) |-> VisibleElements(r)[i].id]

\* how many times visible_sequence pushes the value of the element id
Emitted(r, id) == Cardinality({i \in 1..Len(VisibleIds(r)) : VisibleIds(r)[i] = id})

\* the example of C19: A, B after A; the tombstone of B merged in; C after B
C19_Example ==
    LET a == <<1, 1>>
        b == <<1, 2>>
        c == <<1, 3>>
        r1 == RgaInsert(RgaInsert(RgaNew, a, NoneId, <<65>>), b, SomeId(a), <<66>>)
        r2 == RgaDelete(RgaNew, b)
        m == RgaMerge(r1, r2)
    IN /\ VisibleSequence(m) = <<<<65>>>>
       /\ VisibleSequence(RgaInsert(m, c, SomeId(b), <<67>>)) = <<<<65>>, <<67>>>>

\* C19: visible_sequence pushes the value of no deleted element and the
\* value of every element that is not deleted exactly once, also when the
\* element's anchor is a tombstone (the example gives [A, C]).
C19_RgaVisibleEmission ==
    /\ C19_Example
    /\ \A x \in RgaReplicas : \A id \in RgaIds(rga[x]) :
          Emitted(rga[x], id) = IF rga[x].elems[id].deleted THEN 0 ELSE 1

\* the ids from the head of the prev tree down to id, or <<>> when the prev
\* chain of id does not end at the sentinel
RECURSIVE PathTo(_, _, _)
PathTo(r, id, fuel) ==
    IF id \notin RgaIds(r) \/ fuel = 0 THEN <<>>
    ELSE LET p == r.elems[id].prev
         IN IF ~p.some THEN <<id>>
            ELSE LET up == PathTo(r, p.id, fuel - 1)
                 IN IF up = <<>> THEN <<>> ELSE Append(up, id)

Path(r, id) == PathTo(r, id, Cardinality(RgaIds(r)))

\* depth-first pre-order with ascending siblings: an element precedes its
\* descendants, and below a common anchor the smaller ElementId goes first
RECURSIVE PathLess(_, _)
PathLess(p, q) ==
    IF p = <<>> THEN q # <<>>
    ELSE IF q = <<>> THEN FALSE
    ELSE IF Head(p) # Head(q) THEN IdLess(Head(p), Head(q))
    ELSE PathLess(Tail(p), Tail(q))

\* the example of C20 (rga_insert_at_head_and_sibling_ordering): X = (2,1)
\* and Y = (1,1) at the head, put together in four different orders
C20_Example ==
    LET x == RgaInsert(RgaNew, <<2, 1>>, NoneId, <<88>>)
        y == RgaInsert(RgaNew, <<1, 1>>, NoneId, <<89>>)
        rs == {RgaInsert(x, <<1, 1>>, NoneId, <<89>>),
               RgaInsert(y, <<2, 1>>, NoneId, <<88>>),
               RgaMerge(x, y), RgaMerge(y, x)}
    IN \A r \in rs : VisibleSequence(r) = <<<<89>>, <<88>>>>

\* C20: visible_sequence is the depth-first pre-order of the prev tree from
\* the sentinel, siblings in ascending ElementId order (actor, then counter)
\* and the descendants of a sibling before the next sibling; replicas with
\* the same elements return the same sequence, however they got them.
C20_RgaVisibleOrder ==
    /\ C20_Example
    /\ rga["r1"].elems = rga["r2"].elems =>
          VisibleSequence(rga["r1"]) = VisibleSequence(rga["r2"])
    /\ \A x \in RgaReplicas :
          LET r == rga[x]
              ids == VisibleIds(r)
          IN /\ {ids[i] : i \in 1..Len(ids)} =
                   {id \in RgaIds(r) : Path(r, id) # <<>> /\ ~r.elems[id].deleted}
             /\ \A i, j \in 1..Len(ids) :
                   i < j => PathLess(Path(r, ids[i]), Path(r, ids[j]))
             /\ VisibleSequence(r) = [i \in 1..Len(ids) |-> r.elems[ids[i]].value]

\* C20's case (rga_complex_merge_with_prev_links, with B and C swapped): r1
\* inserted A and then B = (1,2) after A, r2 inserted C = (2,1) after A; both
\* hold all three after merging, and B precedes its sibling C
C20_Witness ==
    /\ RgaIds(rga["r1"]) = {IdA, IdB, IdC}
    /\ rga["r1"].elems[IdB].prev = SomeId(IdA)
    /\ rga["r1"].elems[IdC].prev = SomeId(IdA)
    /\ rga["r1"].elems = rga["r2"].elems
    /\ VisibleSequence(rga["r1"]) = <<<<65>>, <<66>>, <<67>>>>

----------------------------------------------------------------------------
\* Properties of the Rga codec

\* the offsets at which the elements ids[1], ids[2], .. of elems end in the
\* blob, the first of them starting at offset start
RECURSIVE ElementEnds(_, _, _)
ElementEnds(elems, ids, start) ==
    IF ids = <<>> THEN <<>>
    ELSE LET end == start + Len(ElementToBytes(elems[Head(ids)]))
         IN <<end>> \o ElementEnds(elems, Tail(ids), end)

\* the ids of the elements that lie completely in the first n bytes of the
\* blob, given the ids in blob order and the offsets at which they end
CompleteIds(ids, ends, n) == {ids[k] : k \in {j \in 1..Len(ids) : ends[j] <= n}}

\* C21: from_bytes(to_bytes(r)) holds the elements of r (id, prev, value and
\* deleted of each) and so has the visible_sequence of r; of to_bytes(r) cut
\* off after any number of bytes, from_bytes returns the elements that lie
\* completely before the cut, and nothing else (cut on replica r1, which
\* reaches every state a replica can be in).
C21_RgaCodecRoundTrip ==
    /\ \A x \in RgaReplicas :
          /\ RgaFromBytes(RgaToBytes(rga[x])) = rga[x]
          /\ VisibleSequence(RgaFromBytes(RgaToBytes(rga[x]))) = VisibleSequence(rga[x])
    /\ LET r == rga["r1"]
           bytes == RgaToBytes(r)
           ids == SortedIds(RgaIds(r))
           ends == ElementEnds(r.elems, ids, 4)
       IN \A n \in 0..Len(bytes) :
             LET cut == RgaFromBytes(SubSeq(bytes, 1, n))
             IN /\ RgaIds(cut) = CompleteIds(ids, ends, n)
                /\ \A id \in RgaIds(cut) : cut.elems[id] = r.elems[id]

\* C21's case (rga_serialize_roundtrip, with a tombstone): a replica that
\* holds A, B after A and the placeholder of a deleted C is encoded and decoded
C21_Witness ==
    /\ ~rga_dup
    /\ RgaIds(rga["r1"]) = {IdA, IdB, IdC}
    /\ rga["r1"].elems[IdB] = Element(IdB, SomeId(IdA), <<66>>, FALSE)
    /\ rga["r1"].elems[IdC] = Element(IdC, NoneId, <<>>, TRUE)
    /\ rga["r2"] = RgaFromBytes(RgaToBytes(rga["r1"]))

----------------------------------------------------------------------------
\* G-Sets stored under keys of the engine: gset_add and gset_get (kv.rs)

\* gset_add that starts from an empty set whatever is stored
GsetAddValueFresh(mts, ssts, key, elem) == GSetToBytes(GSetInsert(GSetNew, elem))

\* the bytes gset_add hands to memtables.put: the set decoded from the
\* memtable entry if it is a Put, else from the newest table that returns
\* Some, else the empty set; with elem inserted
GsetAddValue(mts, ssts, key, elem) ==
    LET entry == MemTableSetGet(mts, key)
        hit == SstablesGet(ssts, Len(ssts), key)
        gs == IF entry.tag = "put" THEN GSetFromBytes(entry.value)
              ELSE IF hit.some THEN GSetFromBytes(hit.v)
              ELSE GSetNew
    IN GSetToBytes(GSetInsert(gs, elem))

\* the loop of gset_get over the tables from position i down to 1
RECURSIVE GsetGetTables(_, _, _, _)
GsetGetTables(ssts, i, key, result) ==
    IF i = 0 THEN result
    ELSE LET got == SsTableReaderGet(ssts[i].reader, key)
         IN GsetGetTables(ssts, i - 1, key,
                          IF got.some THEN GSetMerge(result, GSetFromBytes(got.v))
                          ELSE result)

\* LsmEngine::gset_get
GsetGet(mts, ssts, key) ==
    LET entry == MemTableSetGet(mts, key)
        first == IF entry.tag = "put" THEN GSetMerge(GSetNew, GSetFromBytes(entry.value))
                 ELSE GSetNew
    IN GSetElements(GsetGetTables(ssts, Len(ssts), key, first))

\* LsmEngine::gset_add
GsetAdd(key, elem, out) ==
    /\ running
    /\ LET mts == [active |-> active, immutables |-> immutables]
           new_bytes == GsetAddValue(mts, sstables, key, elem)
       IN FlushIfFrozen(MemTableSetPut(mts, key, new_bytes), out,
                        [written EXCEPT ![key] = PutEntry(new_bytes)],
                        [last EXCEPT ![key] = PutEntry(new_bytes)])
    /\ ever' = ever \cup {key}
    /\ added' = [added EXCEPT ![key] = @ \cup {elem}]
    /\ UNCHANGED <<current, lost>>
    /\ UNCHANGED <<crdt_vars, sst_vars, aux_vars, actor_id, local_counter, actor_file, fetched, issued, dropped>>

\* the outcomes of a call under this specification
GsetOutcomes == {OkOutcome}

InitGSetKv == Init

NextGSetKv ==
    \/ \E key \in Keys, elem \in GSetElems, out \in GsetOutcomes : GsetAdd(key, elem, out)
    \/ \E out \in GsetOutcomes : Flush(out)
    \/ Close
    \/ Open

SpecGSetKv == InitGSetKv /\ [][NextGSetKv]_vars

\* C22: for keys written only by gset_add, after any gset_add and flush
\* calls that did not fail, and after restarts that found nothing unflushed,
\* gset_get(key) returns the elements ever added to key, each once and in
\* ascending order.
C22_GsetGrowOnly ==
    (running /\ faults = 0 /\ ~lost) =>
        \A key \in Keys :
            GsetGet([active |-> active, immutables |-> immutables], sstables, key)
                = SortedKeys(added[key])

\* C22's case: an element was added and flushed, the engine restarted, and a
\* second element was added to the same key (on top of the set read from
\* table 1) and flushed into table 2
C22_Witness ==
    /\ running
    /\ faults = 0
    /\ ~lost
    /\ active_tables_ids = <<1>>
    /\ Len(sstables) = 2
    /\ \E key \in Keys :
          /\ Cardinality(added[key]) = 2
          /\ SsTableReaderGet(sstables[1].reader, key).some
          /\ SsTableReaderGet(sstables[2].reader, key).some

----------------------------------------------------------------------------
\* ElementIds issued by the engine (next_element_id) and used by
\* rga_insert_after, over restarts of a node

MaxCounter == 3

\* the values the random generator of get_or_create_actor_id may draw
ActorIds == {1, 2}
NodeKey == <<1>>
NodeValues == {<<65>>, <<66>>}

\* a counter update that stores back the value it read
FetchAddLost(c) == c

\* the value fetch_add(1) leaves in the counter
FetchAdd(c) == c + 1

\* ElementId::new
ElementIdNew(actor, counter) == <<actor, counter>>

IssuedNow == {issued.cur[i] : i \in 1..Len(issued.cur)}

\* next_element_id up to the return of fetch_add, on thread t
NextElementId(t) ==
    /\ running
    /\ ~fetched[t].some
    /\ local_counter < MaxCounter
    /\ fetched' = [fetched EXCEPT ![t] = [some |-> TRUE, ctr |-> local_counter]]
    /\ local_counter' = FetchAdd(local_counter)
    /\ issued' = [issued EXCEPT !.cur = Append(@, ElementIdNew(actor_id, local_counter))]
    /\ UNCHANGED <<engine_vars, crdt_vars, sst_vars, aux_vars, actor_id, actor_file, dropped, added>>

\* next_element_id returns on thread t and the caller does not use the id
ReturnId(t) ==
    /\ running
    /\ fetched[t].some
    /\ fetched' = [fetched EXCEPT ![t] = NoCounter]
    /\ UNCHANGED <<engine_vars, crdt_vars, sst_vars, aux_vars, actor_id, local_counter, actor_file,
                   issued, dropped, added>>

\* the bytes rga_insert_after hands to put
RgaInsertAfterValue(got, prev, value, actor, counter) ==
    LET r == IF got.some THEN RgaFromBytes(got.v) ELSE RgaNew
    IN RgaToBytes(RgaInsert(r, ElementIdNew(actor, counter), prev, value))

\* the rga_insert command: thread t passes the id it got from
\* next_element_id to rga_insert_after(key, None, value, actor_id, id.counter)
RgaInsertFresh(t, value) ==
    /\ running
    /\ fetched[t].some
    /\ LET got == Get(NodeKey)
           bytes == RgaInsertAfterValue(got, NoneId, value, actor_id, fetched[t].ctr)
       IN /\ FlushIfFrozen(MemTableSetPut([active |-> active, immutables |-> immutables],
                                          NodeKey, bytes),
                           OkOutcome,
                           [written EXCEPT ![NodeKey] = PutEntry(bytes)],
                           [last EXCEPT ![NodeKey] = PutEntry(bytes)])
          /\ dropped' = (dropped \/ (got.some /\ ElementIdNew(actor_id, fetched[t].ctr)
                                                    \in RgaIds(RgaFromBytes(got.v))))
    /\ ever' = ever \cup {NodeKey}
    /\ fetched' = [fetched EXCEPT ![t] = NoCounter]
    /\ UNCHANGED <<current, lost>>
    /\ UNCHANGED <<crdt_vars, sst_vars, aux_vars, actor_id, local_counter, actor_file, issued, added>>

\* the process ends: the engine and its threads are gone
StopNode ==
    /\ DropEngine
    /\ fetched' = [t \in Threads |-> NoCounter]
    /\ UNCHANGED <<crdt_vars, sst_vars, aux_vars, actor_id, local_counter, actor_file, issued, dropped, added>>

\* the ids of the instance that ended join those of the earlier instances
NewInstance == [prev |-> issued.prev \cup IssuedNow, cur |-> <<>>]

\* the command-line program starts: new_with_manifest
StartCli ==
    /\ NewWithManifest
    /\ actor_id' = 0
    /\ local_counter' = 0
    /\ issued' = NewInstance
    /\ UNCHANGED <<crdt_vars, sst_vars, aux_vars, actor_file, fetched, dropped, added>>

\* get_or_create_actor_id: the id in the file, else `random`, written to the file
GetOrCreateActorId(file, random) ==
    IF file.some THEN [id |-> file.id, file |-> file]
    ELSE [id |-> random, file |-> [some |-> TRUE, id |-> random]]

\* the daemon starts: get_or_create_actor_id, new_with_manifest_and_actor
StartDaemon ==
    \E random \in ActorIds :
        LET a == GetOrCreateActorId(actor_file, random)
        IN /\ NewWithManifest
           /\ actor_file' = a.file
           /\ actor_id' = a.id
           /\ local_counter' = 1
           /\ issued' = NewInstance
           /\ UNCHANGED <<crdt_vars, sst_vars, aux_vars, fetched, dropped, added>>

InitNode == Init

NextNode ==
    \/ \E t \in Threads : NextElementId(t)
    \/ \E t \in Threads : ReturnId(t)
    \/ \E t \in Threads, value \in NodeValues : RgaInsertFresh(t, value)
    \/ StopNode
    \/ StartCli
    \/ StartDaemon

SpecNode == InitNode /\ [][NextNode]_vars

\* C23: on one engine instance the ids from next_element_id all carry the
\* engine's actor id, their counters strictly increase in the order of the
\* calls, start at 1 when the engine was built with an actor id, and two
\* threads inside the call at once never hold the same counter.
C23_FreshIds ==
    running =>
        /\ \A i \in 1..Len(issued.cur) : issued.cur[i][1] = actor_id
        /\ \A i \in 1..(Len(issued.cur) - 1) : issued.cur[i][2] < issued.cur[i + 1][2]
        /\ (issued.cur # <<>> /\ actor_id \in ActorIds) => issued.cur[1][2] = 1
        /\ \A t \in Threads :
              fetched[t].some => ElementIdNew(actor_id, fetched[t].ctr) \in IssuedNow
        /\ \A t, u \in Threads :
              (t # u /\ fetched[t].some /\ fetched[u].some)
                  => fetched[t].ctr # fetched[u].ctr

\* C23's case: an engine built with an actor id, two ids issued, both
\* threads still inside next_element_id
C23_Witness ==
    /\ running
    /\ actor_id \in ActorIds
    /\ Len(issued.cur) = 2
    /\ \A t \in Threads : fetched[t].some

\* C24: a node never issues the same (actor, counter) pair twice, also not
\* after a restart, so an rga insert with an id fresh from next_element_id
\* never finds that id already stored.
C24_IdsUniqueOverRestarts ==
    /\ \A i \in 1..Len(issued.cur) : issued.cur[i] \notin issued.prev
    /\ ~dropped

----------------------------------------------------------------------------
\* The table file as the reader finds it on disk (sstable/builder.rs finish,
\* sstable/reader.rs): its length, the fields of its footer, its index, and
\* its blocks each with the CRC stored behind the payload.  A memtable is
\* filled by put and delete, built into a table with some block size, and
\* the file is then damaged.

MaxDamage == 2
CrcRange == 4

FooterSize == 24
SstableMagic == 1
SstableVersion == 1

BlockSizes == {0, 1, 11, 24}
ShortLens == {0, 23}
BadWords == {2}
CorruptBytes == {11, 12}

RECURSIVE SeqSum(_)
SeqSum(bs) == IF bs = <<>> THEN 0 ELSE Head(bs) + SeqSum(Tail(bs))

\* the checksum of a payload, a sum over its bytes folded into CrcRange values
\* (it tells damaged payloads apart unless their sums agree modulo CrcRange)
RECURSIVE PayloadSum(_)
PayloadSum(records) ==
    IF records = <<>> THEN 0
    ELSE LET r == Head(records)
         IN r.op + Len(r.key) + Len(r.value) + SeqSum(r.key) + SeqSum(r.value)
            + PayloadSum(Tail(records))

Crc32(records) == PayloadSum(records) % CrcRange

\* Index::encode: count(4) || (klen(4) || key || offset(8) || length(4))*
RECURSIVE IndexEncodedLen(_)
IndexEncodedLen(index) ==
    IF index = <<>> THEN 4
    ELSE 4 + Len(Head(index).last_key) + 8 + 4 + IndexEncodedLen(Tail(index))

\* the file that finish() leaves for the builder output f
DiskFile(f, block_size) ==
    [some |-> TRUE,
     len |-> f.index_offset + IndexEncodedLen(f.index) + FooterSize,
     index |-> f.index,
     version |-> SstableVersion,
     magic |-> SstableMagic,
     blocks |-> [i \in 1..Len(f.blocks) |->
                    [offset |-> f.blocks[i].offset, length |-> f.blocks[i].length,
                     records |-> f.blocks[i].records,
                     crc |-> Crc32(f.blocks[i].records)]],
     block_size |-> block_size,
     damage |-> 0]

\* io::Result
IoOk(v) == [kind |-> "Ok", v |-> v]
IoErr(kind) == [kind |-> kind, v |-> <<>>]

\* SsTableReader::open on the file
ReaderOpen(file) ==
    IF file.len < FooterSize THEN IoErr("UnexpectedEof")
    ELSE IF file.magic # SstableMagic THEN IoErr("InvalidData")
    ELSE IF file.version # SstableVersion THEN IoErr("InvalidData")
    ELSE IoOk([index |-> file.index, blocks |-> file.blocks])

\* the block stored at a handle
BlockAt(reader, handle) ==
    reader.blocks[CHOOSE i \in 1..Len(reader.blocks) :
                      reader.blocks[i].offset = handle.offset]

\* get that does not compare the CRCs
ReaderGetNoCrc(reader, key) ==
    LET h == IndexFindBlock(reader.index, key)
    IN IF ~h.some THEN IoOk(None)
       ELSE IF h.handle.length < 4 THEN IoErr("UnexpectedEof")
       ELSE LET found == ScanBlock(BlockAt(reader, h.handle).records, 1, key, NotFound)
            IN IF found.op = 0 THEN IoOk(Some(found.value)) ELSE IoOk(None)

\* SsTableReader::get with its checks: Ok(Some(v)), Ok(None) or an error
ReaderGet(reader, key) ==
    LET h == IndexFindBlock(reader.index, key)
    IN IF ~h.some THEN IoOk(None)
       ELSE IF h.handle.length < 4 THEN IoErr("UnexpectedEof")
       ELSE IF Crc32(BlockAt(reader, h.handle).records) # BlockAt(reader, h.handle).crc
            THEN IoErr("InvalidData")
       ELSE LET found == ScanBlock(BlockAt(reader, h.handle).records, 1, key, NotFound)
            IN IF found.op = 0 THEN IoOk(Some(found.value)) ELSE IoOk(None)

InitSst == Init

\* MemTable::put on the memtable
MemPut(key, value) ==
    /\ ~sst_file.some
    /\ key \in DOMAIN sst_mem.map
    /\ sst_mem' = MemTablePut(sst_mem, key, value)
    /\ UNCHANGED <<engine_vars, crdt_vars, node_vars, aux_vars, sst_file>>

\* MemTable::delete on the memtable
MemDelete(key) ==
    /\ ~sst_file.some
    /\ key \in DOMAIN sst_mem.map
    /\ sst_mem' = MemTableDelete(sst_mem, key)
    /\ UNCHANGED <<engine_vars, crdt_vars, node_vars, aux_vars, sst_file>>

\* flush_memtable_to_sstable(mem, path, block_size)
BuildTable(block_size) ==
    /\ ~sst_file.some
    /\ sst_file' = DiskFile(FlushMemtableToSstable(sst_mem, block_size), block_size)
    /\ UNCHANGED <<engine_vars, crdt_vars, node_vars, aux_vars, sst_mem>>

Damaged(file) == [file EXCEPT !.damage = @ + 1]

\* the file is cut to n bytes
TruncateFile(n) ==
    /\ sst_file.some
    /\ sst_file.damage < MaxDamage
    /\ n < sst_file.len
    /\ sst_file' = [Damaged(sst_file) EXCEPT !.len = n]
    /\ UNCHANGED <<engine_vars, crdt_vars, node_vars, aux_vars, sst_mem>>

\* the magic of the footer is overwritten
OverwriteMagic(m) ==
    /\ sst_file.some
    /\ sst_file.damage < MaxDamage
    /\ sst_file.magic # m
    /\ sst_file' = [Damaged(sst_file) EXCEPT !.magic = m]
    /\ UNCHANGED <<engine_vars, crdt_vars, node_vars, aux_vars, sst_mem>>

\* the version of the footer is overwritten
OverwriteVersion(v) ==
    /\ sst_file.some
    /\ sst_file.damage < MaxDamage
    /\ sst_file.version # v
    /\ sst_file' = [Damaged(sst_file) EXCEPT !.version = v]
    /\ UNCHANGED <<engine_vars, crdt_vars, node_vars, aux_vars, sst_mem>>

\* the CRC stored behind block i is overwritten
OverwriteCrc(i) ==
    /\ sst_file.some
    /\ sst_file.damage < MaxDamage
    /\ i \in 1..Len(sst_file.blocks)
    /\ sst_file' = [Damaged(sst_file) EXCEPT !.blocks[i].crc = (@ + 1) % CrcRange]
    /\ UNCHANGED <<engine_vars, crdt_vars, node_vars, aux_vars, sst_mem>>

\* the first value byte of record p of block i is overwritten with byte
OverwriteValue(i, p, byte) ==
    /\ sst_file.some
    /\ sst_file.damage < MaxDamage
    /\ i \in 1..Len(sst_file.blocks)
    /\ p \in 1..Len(sst_file.blocks[i].records)
    /\ sst_file.blocks[i].records[p].value # <<>>
    /\ sst_file' = [Damaged(sst_file) EXCEPT !.blocks[i].records[p].value[1] = byte]
    /\ UNCHANGED <<engine_vars, crdt_vars, node_vars, aux_vars, sst_mem>>

NextSst ==
    \/ \E key \in SstKeys, value \in SstValues : MemPut(key, value)
    \/ \E key \in SstKeys : MemDelete(key)
    \/ \E block_size \in BlockSizes : BuildTable(block_size)
    \/ \E n \in ShortLens : TruncateFile(n)
    \/ \E m \in BadWords : OverwriteMagic(m)
    \/ \E v \in BadWords : OverwriteVersion(v)
    \/ \E i \in 1..4 : OverwriteCrc(i)
    \/ \E i \in 1..4, p \in 1..3, byte \in CorruptBytes : OverwriteValue(i, p, byte)

SpecSst == InitSst /\ [][NextSst]_vars

\* C25: the reader fails cleanly on a damaged file: open returns
\* UnexpectedEof for a file shorter than the footer and InvalidData for a
\* wrong magic or version; get returns InvalidData when the CRC stored behind
\* the block it reads does not match the payload; no error carries a value.
C25_ReaderFailsCleanly ==
    sst_file.some =>
        LET opened == ReaderOpen(sst_file)
        IN /\ sst_file.len < FooterSize => opened = IoErr("UnexpectedEof")
           /\ (sst_file.len >= FooterSize
                  /\ (sst_file.magic # SstableMagic \/ sst_file.version # SstableVersion))
                 => opened = IoErr("InvalidData")
           /\ opened.kind = "Ok" =>
                 \A key \in SstKeys :
                    LET h == IndexFindBlock(sst_file.index, key)
                    IN (h.some /\ \E i \in 1..Len(sst_file.blocks) :
                                     /\ sst_file.blocks[i].offset = h.handle.offset
                                     /\ Crc32(sst_file.blocks[i].records)
                                           # sst_file.blocks[i].crc)
                          => ReaderGet(opened.v, key) = IoErr("InvalidData")

\* C25's case: the file opens, and get of a key the memtable held as a Put
\* reads a block whose payload was overwritten, and returns InvalidData
C25_Witness ==
    /\ sst_file.some
    /\ ReaderOpen(sst_file).kind = "Ok"
    /\ \E key \in SstKeys :
          /\ sst_mem.map[key].tag = "put"
          /\ BlockAt(sst_file, IndexFindBlock(sst_file.index, key).handle).records
                # FlushMemtableToSstable(sst_mem, sst_file.block_size).blocks[
                      CHOOSE i \in 1..Len(sst_file.blocks) :
                          sst_file.blocks[i].offset
                              = IndexFindBlock(sst_file.index, key).handle.offset].records
          /\ ReaderGet(ReaderOpen(sst_file).v, key) = IoErr("InvalidData")

\* C26: the engine's table list is always in strictly ascending id order,
\* after any flushes, failed flushes and restarts.
C26_TablesAscending ==
    \A i \in 1..Len(sstables) : \A j \in 1..Len(sstables) :
        i < j => sstables[i].id < sstables[j].id

\* C26's case: two tables were loaded by a restart after a flush had failed
C26_Witness ==
    /\ running
    /\ faults > 0
    /\ Len(sstables) = 2
    /\ active_tables_ids = <<sstables[1].id, sstables[2].id>>

\* C27: once flush_immutable has succeeded the flushed memtable is no longer
\* in the immutable queue: while every flush succeeded the queue is empty.
C27_FlushedMemtableDropped ==
    (running /\ faults = 0) => immutables = <<>>

\* the cost of the entries in the map, 1 + 4 + 4 + keylen + valuelen each
RECURSIVE CostOfKeys(_, _)
CostOfKeys(mt, ks) ==
    IF ks = {} THEN 0
    ELSE LET k == CHOOSE x \in ks : TRUE
         IN 1 + 4 + 4 + Len(k) + Len(mt.map[k].value) + CostOfKeys(mt, ks \ {k})

MapCost(mt) == CostOfKeys(mt, {k \in DOMAIN mt.map : mt.map[k].tag # "none"})

\* C28: bytes_used of a memtable is the sum of 1 + 4 + 4 + keylen + valuelen
\* over the entries in its map (valuelen 0 for a Delete), also after
\* overwrites; the table counts as over the threshold exactly from
\* max_bytes on, so the active table always stays below it.
C28_ByteAccounting ==
    /\ \A mt \in {active} \cup {immutables[i] : i \in 1..Len(immutables)} :
          /\ mt.bytes_used = MapCost(mt)
          /\ OverThreshold(mt) <=> MapCost(mt) >= MemtableMaxBytes
    /\ MapCost(active) < MemtableMaxBytes

\* C28's case: the active table holds a Delete of each key, one byte below
\* the threshold, and a table frozen at exactly max_bytes is in the queue
C28_Witness ==
    /\ running
    /\ \A k \in Keys : active.map[k].tag = "del"
    /\ active.bytes_used = MemtableMaxBytes - 1
    /\ \E i \in 1..Len(immutables) : immutables[i].bytes_used = MemtableMaxBytes

\* the keys probed in a table: those of the memtable and keys before, between
\* and after them
ProbeKeys == SstKeys \cup {<<>>, <<0>>, <<1, 1>>, <<1, 3>>, <<3>>}

Stored(mt, key) == IF key \in DOMAIN mt.map THEN mt.map[key] ELSE NoEntry

RECURSIVE AllRecords(_)
AllRecords(blocks) ==
    IF blocks = <<>> THEN <<>>
    ELSE Head(blocks).records \o AllRecords(Tail(blocks))

\* C30: a table built from a memtable of N entries holds N records, in
\* strictly ascending key order over its blocks; the index has one entry per
\* block, with the block's handle and its last and largest key, and the
\* index keys are strictly ascending.
C30_TableOrdering ==
    (sst_file.some /\ sst_file.damage = 0) =>
        LET recs == AllRecords(sst_file.blocks)
            index == sst_file.index
            blocks == sst_file.blocks
        IN /\ Len(recs) = Cardinality(MemTableKeys(sst_mem))
           /\ \A i \in 1..(Len(recs) - 1) : KeyLess(recs[i].key, recs[i + 1].key)
           /\ Len(index) = Len(blocks)
           /\ \A i \in 1..Len(blocks) :
                 /\ blocks[i].records # <<>>
                 /\ index[i].handle = [offset |-> blocks[i].offset,
                                       length |-> blocks[i].length]
                 /\ index[i].last_key
                       = blocks[i].records[Len(blocks[i].records)].key
                 /\ \A p \in 1..Len(blocks[i].records) :
                       KeyLeq(blocks[i].records[p].key, index[i].last_key)
           /\ \A i \in 1..(Len(index) - 1) :
                 KeyLess(index[i].last_key, index[i + 1].last_key)

\* C30's case: three entries in two blocks, the first block with two records
C30_Witness ==
    /\ sst_file.some
    /\ sst_file.damage = 0
    /\ Cardinality(MemTableKeys(sst_mem)) = 3
    /\ Len(sst_file.blocks) = 2
    /\ Len(sst_file.blocks[1].records) = 2

\* C31: the builder never writes a block without records: every block of a
\* built table holds at least one record, and no index entry has an empty
\* last_key.
C31_NoEmptyBlock ==
    (sst_file.some /\ sst_file.damage = 0) =>
        /\ \A i \in 1..Len(sst_file.blocks) : sst_file.blocks[i].records # <<>>
        /\ \A i \in 1..Len(sst_file.index) : sst_file.index[i].last_key # <<>>

\* the placeholder delete(id) leaves for an unknown id
Placeholder(id) == Element(id, NoneId, <<>>, TRUE)

\* the ids visible_sequence pushes below the anchor curr
IdsBelow(r, curr) == {Visit(r, curr)[i].id : i \in 1..Len(Visit(r, curr))}

\* the example of C32: x deleted the unknown B and inserted C after B; y holds
\* A and B after A
C32_Example ==
    LET a == <<1, 1>>
        b == <<1, 2>>
        c == <<1, 3>>
        x == RgaInsert(RgaDelete(RgaNew, b), c, SomeId(b), <<67>>)
        y == RgaInsert(RgaInsert(RgaNew, a, NoneId, <<65>>), b, SomeId(a), <<66>>)
    IN /\ VisibleSequence(x) = <<<<67>>>>
       /\ RgaMerge(x, y) = RgaMerge(y, x)
       /\ RgaMerge(x, y).elems[b] = Element(b, SomeId(a), <<66>>, TRUE)
       /\ VisibleSequence(RgaMerge(x, y)) = <<<<65>>, <<67>>>>

\* C32: when one replica holds the placeholder of a deleted unknown id and
\* the other the real element (non-empty value), merging either into the
\* other leaves the element with the real prev and value and deleted = true;
\* its value is not pushed, and its children that are not deleted are pushed
\* below the real anchor.
C32_RgaLateBody ==
    /\ C32_Example
    /\ \A x, y \in RgaReplicas : \A id \in RgaIds(rga[x]) \cap RgaIds(rga[y]) :
          (rga[x].elems[id] = Placeholder(id) /\ rga[y].elems[id].value # <<>>) =>
              LET real == rga[y].elems[id]
                  want == Element(id, real.prev, real.value, TRUE)
              IN \A m \in {RgaMerge(rga[x], rga[y]), RgaMerge(rga[y], rga[x])} :
                    /\ m.elems[id] = want
                    /\ Emitted(m, id) = 0
                    /\ \A c \in RgaIds(m) :
                          (m.elems[c].prev = SomeId(id) /\ ~m.elems[c].deleted)
                              => c \in IdsBelow(m, real.prev)

\* C32's case: r1 deleted B before it knew it and holds the placeholder and an
\* element anchored elsewhere; r2 holds A and the real B after A
C32_Witness ==
    /\ ~rga_dup
    /\ IdB \in RgaIds(rga["r1"])
    /\ rga["r1"].elems[IdB] = Placeholder(IdB)
    /\ IdA \notin RgaIds(rga["r1"])
    /\ RgaIds(rga["r2"]) = {IdA, IdB}
    /\ rga["r2"].elems[IdB] = Element(IdB, SomeId(IdA), <<66>>, FALSE)

----------------------------------------------------------------------------
\* G-Set keys that are also written by put and delete

MixElems == {<<1>>, <<1, 2>>}
MixPuts == {<<<<1>>, <<7>>>>}

NextGSetMix ==
    \/ \E key \in Keys, elem \in MixElems, out \in GsetOutcomes : GsetAdd(key, elem, out)
    \/ \E kv \in MixPuts, out \in GsetOutcomes : Put(kv[1], kv[2], out)
    \/ \E key \in Keys, out \in GsetOutcomes : Delete(key, out)
    \/ \E out \in GsetOutcomes : Flush(out)
    \/ Close
    \/ Open

SpecGSetMix == InitGSetKv /\ [][NextGSetMix]_vars

\* C33: when the most recent write to key is delete(key), gset_add(key, e)
\* stores the set holding only e, and get(key) then returns its encoding.
C33_GsetAddAfterDelete ==
    [][\A key \in Keys, elem \in MixElems :
          (last[key].tag = "del" /\ GsetAdd(key, elem, OkOutcome))
              => /\ written'[key] = PutEntry(GSetToBytes(GSetInsert(GSetNew, elem)))
                 /\ Get(key)' = Some(GSetToBytes(GSetInsert(GSetNew, elem)))]_vars

\* C39: whenever get(key) returns None and the most recent write to key is a
\* delete, or key was never written, gset_get(key) returns the empty set.
C39_GsetGetAbsent ==
    running =>
        \A key \in Keys :
            (Get(key) = None /\ (last[key].tag = "del" \/ key \notin ever))
                => GsetGet([active |-> active, immutables |-> immutables],
                           sstables, key) = <<>>


----------------------------------------------------------------------------
\* The RGA calls of the engine: rga_insert_after, rga_delete, rga_get_visible

RgaKvIds == {<<1, 1>>, <<1, 2>>}
RgaKvPrevs == {NoneId, SomeId(<<1, 1>>)}

\* LsmEngine::rga_insert_after
RgaInsertAfter(key, prev, value, id, out) ==
    /\ running
    /\ LET bytes == RgaInsertAfterValue(Get(key), prev, value, id[1], id[2])
       IN FlushIfFrozen(MemTableSetPut([active |-> active, immutables |-> immutables],
                                       key, bytes),
                        out,
                        [written EXCEPT ![key] = PutEntry(bytes)],
                        [last EXCEPT ![key] = PutEntry(bytes)])
    /\ ever' = ever \cup {key}
    /\ UNCHANGED <<current, lost>>
    /\ UNCHANGED <<crdt_vars, glue_vars>>

\* the bytes rga_delete hands to put when get found the bytes bs
RgaDeleteValue(bs, id) == RgaToBytes(RgaDelete(RgaFromBytes(bs), id))

\* LsmEngine::rga_delete: `None => return Ok(())`, else decode, delete, put
RgaDeleteKv(key, id, out) ==
    /\ running
    /\ LET got == Get(key)
       IN IF got.some
          THEN LET bytes == RgaDeleteValue(got.v, id)
               IN /\ FlushIfFrozen(MemTableSetPut([active |-> active,
                                                   immutables |-> immutables],
                                                  key, bytes),
                                   out,
                                   [written EXCEPT ![key] = PutEntry(bytes)],
                                   [last EXCEPT ![key] = PutEntry(bytes)])
                  /\ UNCHANGED <<current, lost, ever>>
          ELSE /\ out = OkOutcome
               /\ UNCHANGED engine_vars
    /\ tombstoned' = IF out = OkOutcome THEN tombstoned \cup {<<key, id>>} ELSE tombstoned
    /\ UNCHANGED <<crdt_vars, node_vars, sst_vars, shared, boot>>

\* the elements whose values rga_get_visible returns
RgaGetVisible(key) ==
    LET got == Get(key)
    IN IF got.some THEN VisibleElements(RgaFromBytes(got.v)) ELSE <<>>

NextRgaKv ==
    \/ \E key \in Keys, prev \in RgaKvPrevs, value \in NodeValues, id \in RgaKvIds,
          out \in GsetOutcomes : RgaInsertAfter(key, prev, value, id, out)
    \/ \E key \in Keys, id \in RgaKvIds, out \in GsetOutcomes : RgaDeleteKv(key, id, out)
    \/ \E out \in GsetOutcomes : Flush(out)

SpecRgaKv == Init /\ [][NextRgaKv]_vars

\* C34: once rga_delete(key, id) has returned Ok, the RGA stored at key
\* holds element id with deleted = true, also when the key held no value or
\* the id was unknown, and no later rga_insert_after makes the element visible.
C34_RgaDeletePersists ==
    running =>
        \A t \in tombstoned :
            LET got == Get(t[1])
                vis == RgaGetVisible(t[1])
            IN /\ got.some
               /\ t[2] \in RgaIds(RgaFromBytes(got.v))
               /\ RgaFromBytes(got.v).elems[t[2]].deleted
               /\ \A i \in 1..Len(vis) : vis[i].id # t[2]


----------------------------------------------------------------------------
\* Threads inside SsTableReader::get on one reader. KvSvc::get takes the
\* read lock of the engine, so several threads may be in get at once; the
\* reader has one File, and `f.seek(..)?; f.read_exact(..)?` on `&self.file`
\* are two system calls on the same file position.

\* what get makes of the n bytes it read at position pos: a block as
\* written is checked and scanned; a read over the end of the file fails in
\* read_exact; any other run of bytes fails the checksum comparison
BlockResult(file, pos, n, key) ==
    IF pos + n > file.len \/ n < 4 THEN IoErr("UnexpectedEof")
    ELSE IF \E i \in 1..Len(file.blocks) :
                file.blocks[i].offset = pos /\ file.blocks[i].length = n
         THEN LET b == file.blocks[CHOOSE i \in 1..Len(file.blocks) :
                                       file.blocks[i].offset = pos]
                  found == ScanBlock(b.records, 1, key, NotFound)
              IN IF Crc32(b.records) # b.crc THEN IoErr("InvalidData")
                 ELSE IF found.op = 0 THEN IoOk(Some(found.value)) ELSE IoOk(None)
    ELSE IoErr("InvalidData")

\* get up to the return of seek on thread t
GetSeek(t, key) ==
    /\ sst_file.some
    /\ shared.th[t].pc = "idle"
    /\ LET h == IndexFindBlock(sst_file.index, key)
       IN shared' =
            IF ~h.some
            THEN [shared EXCEPT !.th[t] = [pc |-> "done", key |-> key, res |-> IoOk(None)]]
            ELSE [pos |-> h.handle.offset,
                  th |-> [shared.th EXCEPT ![t] =
                             [pc |-> "sought", key |-> key, handle |-> h.handle]]]
    /\ UNCHANGED <<engine_vars, crdt_vars, node_vars, sst_vars, tombstoned, boot>>

\* the position of the descriptor after read_exact of n bytes
AfterRead(file, pos, n) == IF pos + n > file.len THEN file.len ELSE pos + n

\* read_exact and the rest of get on thread t
GetRead(t) ==
    /\ shared.th[t].pc = "sought"
    /\ LET me == shared.th[t]
       IN shared' =
            [pos |-> AfterRead(sst_file, shared.pos, me.handle.length),
             th |-> [shared.th EXCEPT ![t] =
                        [pc |-> "done", key |-> me.key,
                         res |-> BlockResult(sst_file, shared.pos, me.handle.length,
                                             me.key)]]]
    /\ UNCHANGED <<engine_vars, crdt_vars, node_vars, sst_vars, tombstoned, boot>>

\* get has returned on thread t
GetReturn(t) ==
    /\ shared.th[t].pc = "done"
    /\ shared' = [shared EXCEPT !.th[t] = NotReading]
    /\ UNCHANGED <<engine_vars, crdt_vars, node_vars, sst_vars, tombstoned, boot>>

NextShared ==
    \/ \E key \in SstKeys, value \in SstValues : MemPut(key, value)
    \/ \E key \in SstKeys : MemDelete(key)
    \/ \E block_size \in BlockSizes : BuildTable(block_size)
    \/ \E t \in Threads, key \in SstKeys : GetSeek(t, key)
    \/ \E t \in Threads : GetRead(t)
    \/ \E t \in Threads : GetReturn(t)

SpecShared == InitSst /\ [][NextShared]_vars

\* C35: a get that runs under the read lock while other gets run on the
\* same reader returns what it returns when it runs alone.
C35_ConcurrentGets ==
    \A t \in Threads :
        shared.th[t].pc = "done"
            => shared.th[t].res = ReaderGet(ReaderOpen(sst_file).v, shared.th[t].key)

----------------------------------------------------------------------------
\* Table ids whose flush returned an error from the build or the rename

\* the manifest has the line "add <id>"
Recorded(lines, id) == \E i \in 1..Len(lines) : lines[i] = AddLine(id)

\* C36 as stated: an id whose flush failed in the build or the rename never
\* gets an add line, is never on the live table list and is never in the
\* active set of a later start.
C36_NoRecordEver ==
    \A id \in failed.ever :
        /\ ~Recorded(manifest, id)
        /\ id \notin IdsOf(LiveIds)
        /\ id \notin IdsOf(active_tables_ids)

\* C36: a flush that fails in the build or the rename returns the error and
\* leaves the manifest and the live table list as they were; while that
\* engine instance lives the id is not allocated again, so it gets no add
\* line and no live table. An add line for the id is written only by a
\* flush of a later instance that allocated the id anew.
C36_NoRecordOnInstance ==
    /\ [](running =>
             \A id \in failed.now :
                 /\ ~Recorded(manifest, id)
                 /\ id \notin IdsOf(LiveIds)
                 /\ id \notin IdsOf(active_tables_ids)
                 /\ id < next_table_id)
    /\ [][(failed'.now # failed.now /\ running')
              => (manifest' = manifest /\ sstables' = sstables)]_vars
    /\ [][\A id \in failed.ever :
              (~Recorded(manifest, id) /\ Recorded(manifest', id))
                  => (id \notin failed.now /\ id = next_table_id)]_vars

\* C36's case: the flush of table 1 failed and the engine went on to flush
\* table 2, which is recorded and live
C36_Witness ==
    /\ running
    /\ failed.now = {1}
    /\ manifest = <<AddLine(2)>>
    /\ IdsOf(LiveIds) = {2}

----------------------------------------------------------------------------
\* Startup on a directory whose manifest lists tables that do not open: the
\* manifest and the table files are put in place while no engine runs.

\* a table file with one record, and what a failed flush or a damaged
\* footer leaves under the final name
PlacedFiles == {FlushMemtableToSstable(MemTablePut(MemTableNew, <<1>>, <<7>>), BlockBytes),
                PartialFile}

PlaceFile(id, file) ==
    /\ ~running
    /\ sst_dir' = WriteFile(sst_dir, SstFinalPath(id), file)
    /\ UNCHANGED <<running, active, immutables, sstables, next_table_id, manifest,
                   current, active_tables_ids, written, last, ever, renamed_ids, faults,
                   failed, lost>>
    /\ UNCHANGED <<crdt_vars, glue_vars>>

NextStartup ==
    \/ \E line \in LogLines : WriteLine(line)
    \/ \E id \in LogIds, file \in PlacedFiles : PlaceFile(id, file)
    \/ Open
    \/ Close

SpecStartup == InitReplay /\ [][NextStartup]_vars

\* the file of table id is there and its footer validates
Opens(id) == SstFinalPath(id) \in DOMAIN sst_dir /\ sst_dir[SstFinalPath(id)].footer_ok

\* C37: new_with_manifest succeeds whatever the listed tables look like; the
\* live table list is the listed ids whose files open, in manifest order,
\* and next_table_id is one more than the largest listed id, skipped ids
\* included.
C37_StartupSkipsUnreadable ==
    /\ [](running =>
             /\ LiveIds = SelectSeq(active_tables_ids, Opens)
             /\ \A i \in 1..Len(active_tables_ids) : active_tables_ids[i] < next_table_id
             /\ next_table_id = 1 \/ next_table_id - 1 \in IdsOf(active_tables_ids))
    /\ [](~running => ENABLED NewWithManifest)

\* C37's case: the manifest lists tables 1 and 2, the file of table 2 does
\* not open, the engine runs with table 1 alone and will allocate id 3
C37_Witness ==
    /\ running
    /\ active_tables_ids = <<1, 2>>
    /\ ~Opens(2)
    /\ LiveIds = <<1>>
    /\ next_table_id = 3

----------------------------------------------------------------------------
\* CURRENT (storage/manifest.rs): read_current_or_init and
\* write_current_atomic, one file-system call per step; the process may end
\* after any step and the files stay as they are.

MaxBootLines == 1

\* the byte writeln! puts behind the name
Newline == 10

\* current_path
CurrentPath == "CURRENT"

\* a temporary path that is CURRENT itself
CurrentTmpPathInPlace == "CURRENT"

\* data_dir.join("CURRENT.tmp")
CurrentTmpPath == "CURRENT.tmp"

IsWhite(b) == b = Newline

\* str::trim, for content whose only white space is the newline
RECURSIVE TrimStart(_)
TrimStart(bytes) ==
    IF bytes # <<>> /\ IsWhite(Head(bytes)) THEN TrimStart(Tail(bytes)) ELSE bytes

RECURSIVE TrimEnd(_)
TrimEnd(bytes) ==
    IF bytes # <<>> /\ IsWhite(bytes[Len(bytes)])
    THEN TrimEnd(SubSeq(bytes, 1, Len(bytes) - 1)) ELSE bytes

Trim(bytes) == TrimEnd(TrimStart(bytes))

\* what writeln!(f, "{manifest_name}") writes
Writeln(name) == name \o <<Newline>>

BootFrame == UNCHANGED <<engine_vars, crdt_vars, node_vars, sst_vars, tombstoned, shared>>

\* read_current_or_init(data_dir, initial) is called; `if current.exists()`:
\* read the file and return its trimmed content
ReadCurrent(initial) ==
    /\ boot.pc = "idle"
    /\ boot' =
         IF boot.files[CurrentPath].some
         THEN [boot EXCEPT !.pc = "done", !.initial = initial,
                           !.ret = SomeBytes(Trim(boot.files[CurrentPath].bytes)),
                           !.returned = @ \cup {Trim(boot.files[CurrentPath].bytes)}]
         ELSE [boot EXCEPT !.pc = "manifest", !.initial = initial]
    /\ BootFrame

\* `if !manifest_path.exists()`: create the manifest file
CreateManifest ==
    /\ boot.pc = "manifest"
    /\ boot' = [boot EXCEPT !.pc = "open_tmp",
                            !.manifests[boot.initial] =
                                IF @.some THEN @ ELSE [some |-> TRUE, lines |-> 0]]
    /\ BootFrame

\* write_current_atomic: open CURRENT.tmp with create and truncate
OpenTmp ==
    /\ boot.pc = "open_tmp"
    /\ boot' = [boot EXCEPT !.pc = "write", !.pending = Writeln(boot.initial),
                            !.files[CurrentTmpPath] = SomeBytes(<<>>)]
    /\ BootFrame

\* writeln!: the next byte reaches the file
WriteByte ==
    /\ boot.pc = "write"
    /\ boot' = [boot EXCEPT !.pc = IF Len(boot.pending) = 1 THEN "rename" ELSE "write",
                            !.pending = Tail(@),
                            !.files[CurrentTmpPath].bytes = Append(@, Head(boot.pending))]
    /\ BootFrame

\* fs::rename(&tmp, &current)
RenameTmp ==
    /\ boot.pc = "rename"
    /\ boot' = [boot EXCEPT !.pc = "fsync",
                            !.files = IF CurrentTmpPath = CurrentPath THEN @
                                      ELSE [@ EXCEPT ![CurrentPath] = boot.files[CurrentTmpPath],
                                                     ![CurrentTmpPath] = NoBytes]]
    /\ BootFrame

\* fsync_dir, and read_current_or_init returns Ok(initial)
ReturnInitial ==
    /\ boot.pc = "fsync"
    /\ boot' = [boot EXCEPT !.pc = "done", !.ret = SomeBytes(boot.initial),
                            !.returned = @ \cup {boot.initial}]
    /\ BootFrame

\* the engine that got the name appends a line to that manifest
AppendLine ==
    /\ boot.pc = "done"
    /\ boot.ret.bytes \in BootNames
    /\ boot.manifests[boot.ret.bytes].some
    /\ boot.manifests[boot.ret.bytes].lines < MaxBootLines
    /\ boot' = [boot EXCEPT !.manifests[boot.ret.bytes].lines = @ + 1]
    /\ BootFrame

\* the process ends, at any step; its files stay
EndProcess ==
    /\ boot.pc # "idle"
    /\ boot' = [boot EXCEPT !.pc = "idle", !.initial = <<>>, !.pending = <<>>,
                            !.ret = NoBytes]
    /\ BootFrame

NextBoot ==
    \/ \E initial \in BootNames : ReadCurrent(initial)
    \/ CreateManifest
    \/ OpenTmp
    \/ WriteByte
    \/ RenameTmp
    \/ ReturnInitial
    \/ AppendLine
    \/ EndProcess

SpecBoot == Init /\ [][NextBoot]_vars

\* C38: whenever a process starts, CURRENT is absent or holds a complete
\* manifest name; once read_current_or_init has returned, CURRENT names a
\* manifest file that exists; every call returns the same name, and no call
\* changes a manifest that exists.
C38_CurrentAtomic ==
    /\ [](boot.pc = "idle" =>
             (boot.files[CurrentPath].some =>
                  \E name \in BootNames : boot.files[CurrentPath].bytes = Writeln(name)))
    /\ [](boot.pc = "done" =>
             /\ boot.files[CurrentPath].some
             /\ Trim(boot.files[CurrentPath].bytes) = boot.ret.bytes
             /\ boot.ret.bytes \in BootNames
             /\ boot.manifests[boot.ret.bytes].some)
    /\ [](Cardinality(boot.returned) <= 1)
    /\ [][boot.pc # "done" =>
              \A name \in BootNames :
                  boot.manifests[name].some => boot'.manifests[name] = boot.manifests[name]]_vars

\* C38's case: a start was cut short while CURRENT.tmp was being written,
\* a later start with another initial name finished, its engine recorded a
\* table, and the next start, called with the first name again, got the
\* name in CURRENT
C38_Witness ==
    /\ boot.pc = "done"
    /\ boot.initial = <<77, 49>>
    /\ boot.ret = SomeBytes(<<77, 50>>)
    /\ boot.manifests[<<77, 49>>].some
    /\ boot.manifests[<<77, 50>>] = [some |-> TRUE, lines |-> 1]

----------------------------------------------------------------------------
\* Frozen memtables whose flush failed

\* the entries of mt are in a table that has its final name and is recorded
\* in the manifest
InRecordedTable(mt) ==
    \E id \in IdsOf(ManifestIds) :
        LET r == SsTableReaderOpen(sst_dir, SstFinalPath(id))
        IN r.ok /\ \A k \in Keys : TableEntry(r, k) = mt.map[k]

\* C40: a frozen memtable whose flush failed with an I/O error is written by
\* a later call: once a later put, delete or flush has flushed and returned
\* Ok, every frozen memtable is in a table recorded in the manifest.
C40_NoStrandedMemtable ==
    [][((\/ \E kv \in PutArgs : Put(kv[1], kv[2], OkOutcome)
         \/ \E k \in Keys : Delete(k, OkOutcome)
         \/ Flush(OkOutcome))
        /\ Len(sstables') > Len(sstables))
           => (\A i \in 1..Len(immutables) : InRecordedTable(immutables[i]))']_vars
====
